---- MODULE Spec2Model ----
(***************************************************************************)
(* Model of the single-lock game world of LeviTankTV/Dream                 *)
(* (package game: Game, Player, Mob, Petal, PetalDrop).                    *)
(*                                                                         *)
(* Representation.                                                         *)
(*  - Coordinates are fixed-point integers in TENTHS of a world unit       *)
(*    (the Go code uses float64): a zone edge at 6000 is 60000, the player *)
(*    speed 2.5 is 25.  Quotients are rounded to the nearest tenth.        *)
(*  - Time is an integer clock `now` in units of 100 ms (one tick of the   *)
(*    100 ms tickers): 10 s = 100, 30 s = 300, 2 s = 20, 500 ms = 5.       *)
(*  - A method that holds Game.mu exclusively from its first to its last   *)
(*    statement is one atomic action, enabled when no task holds the lock  *)
(*    shared; `mu` is the set of tasks holding it shared.                  *)
(*  - `sent` is the list of messages written to connections by the last    *)
(*    step and `last` records what the last step did.                      *)
(***************************************************************************)
EXTENDS Integers, Sequences, FiniteSets, TLC

VARIABLES players, connections, mobs, petalDrops, revives, now,
          petalPc, petalTick, collTick, aiTick, sent, last, via, nmoves,
          mu, handlers, bcast, writing, locks, tasks

vars == <<players, connections, mobs, petalDrops, revives, now,
          petalPc, petalTick, collTick, aiTick, sent, last, via, nmoves,
          mu, handlers, bcast, writing, locks, tasks>>

\* the tasks' own state: who holds Game.mu shared, where every connection
\* handler stands, where the broadcast task stands, and which tasks are
\* inside a write on each connection
srvvars == <<mu, handlers, bcast, writing, locks, tasks>>

---------------------------------------------------------------------------
(* Bounds of the model *)

\* largest clock value explored (units of 100 ms)
MaxTime == 200

\* number of MovePlayer commands explored in one behaviour
MaxMoves == 4

\* number of client commands (move, respawn) explored in the combat world
MaxWorldMoves == 2

---------------------------------------------------------------------------
(* Game.mu *)

\* g.mu.Lock() without waiting
Lock_absent == TRUE

\* g.mu.Lock(): granted when no task holds the lock shared (a task holding
\* it exclusively runs to its Unlock within one step)
Lock == mu = {}

\* the locks of the first server (connectionsMu, playersMu), all free; the
\* holders of a lock are pairs <<task, "R">> or <<task, "W">>
Unlocked == [connectionsMu |-> {}, playersMu |-> {}]

\* the handler of client c inside its read loop: pid is the ID of the
\* player AddPlayer returned to it, joined the clock reading of that call,
\* entry tells that g.connections[pid] is its socket, err the call of its
\* socket that returned an error
Serving(c) == [pc |-> "loop", token |-> "good", state |-> "none", pid |-> c,
               joined |-> 0 - 1, entry |-> TRUE, err |-> "none"]

\* the broadcast task between two rounds
Resting == [pc |-> "idle", order |-> << >>, i |-> 0, failed |-> {}, served |-> {}]

---------------------------------------------------------------------------
(* Arithmetic helpers *)

Abs(a) == IF a < 0 THEN 0 - a ELSE a

\* a / b rounded to the nearest integer (b > 0); stands for float division
RDiv(a, b) == IF a >= 0 THEN (2 * a + b) \div (2 * b)
              ELSE 0 - ((2 * (0 - a) + b) \div (2 * b))

RECURSIVE SqrtIter(_, _, _)
SqrtIter(n, lo, hi) ==
    IF lo >= hi THEN lo
    ELSE LET mid == (lo + hi + 1) \div 2
         IN IF mid * mid <= n THEN SqrtIter(n, mid, hi)
            ELSE SqrtIter(n, lo, mid - 1)

\* math.Sqrt on integers: the largest r with r*r <= n (n < 2^31)
ISqrt(n) == SqrtIter(n, 0, 46340)

\* dx*dx + dy*dy <= r*r, evaluated without leaving 32 bits
WithinSq(dx, dy, r) ==
    /\ Abs(dx) <= r
    /\ Abs(dy) <= r
    /\ dx * dx + dy * dy <= r * r

\* dx*dx + dy*dy < r*r
InsideSq(dx, dy, r) ==
    /\ Abs(dx) < r
    /\ Abs(dy) < r
    /\ dx * dx + dy * dy < r * r

---------------------------------------------------------------------------
(* Static tables *)

PlayerRadius == 150
CollisionBuffer == 50

\* radius of a portal trigger: 100 units
PortalRadius == 1000

\* 10 * time.Second
PortalCooldownTime == 100

zones ==
    [ common    |-> [MinX |-> 0,      MaxX |-> 60000,  MinY |-> 0, MaxY |-> 30000],
      uncommon  |-> [MinX |-> 70000,  MaxX |-> 130000, MinY |-> 0, MaxY |-> 30000],
      rare      |-> [MinX |-> 140000, MaxX |-> 200000, MinY |-> 0, MaxY |-> 30000],
      epic      |-> [MinX |-> 210000, MaxX |-> 270000, MinY |-> 0, MaxY |-> 30000],
      legendary |-> [MinX |-> 280000, MaxX |-> 340000, MinY |-> 0, MaxY |-> 30000] ]

ZoneNames == DOMAIN zones

portals ==
    [ P1 |-> [X |-> 58000,  Y |-> 15000, To |-> "P2", Zone |-> "common"],
      P2 |-> [X |-> 72000,  Y |-> 15000, To |-> "P1", Zone |-> "uncommon"],
      P3 |-> [X |-> 128000, Y |-> 15000, To |-> "P4", Zone |-> "uncommon"],
      P4 |-> [X |-> 142000, Y |-> 15000, To |-> "P3", Zone |-> "rare"],
      P5 |-> [X |-> 198000, Y |-> 15000, To |-> "P6", Zone |-> "rare"],
      P6 |-> [X |-> 212000, Y |-> 15000, To |-> "P5", Zone |-> "epic"],
      P7 |-> [X |-> 268000, Y |-> 15000, To |-> "P8", Zone |-> "epic"],
      P8 |-> [X |-> 282000, Y |-> 15000, To |-> "P7", Zone |-> "legendary"] ]

PortalIds == DOMAIN portals

InZone(z, x, y) ==
    /\ zones[z].MinX <= x /\ x <= zones[z].MaxX
    /\ zones[z].MinY <= y /\ y <= zones[z].MaxY

---------------------------------------------------------------------------
(* Players *)

PlayerIds == {"p1", "p2"}

NewPlayer(x, y) ==
    [ X |-> x, Y |-> y, Speed |-> 25, Radius |-> 150,
      Health |-> 100, MaxHealth |-> 100, CollisionDamage |-> 25,
      CurrentZone |-> "common", PortalCooldown |-> 0 - PortalCooldownTime,
      LastHitTime |-> now, Petals |-> << >> ]

PlayerIsAlive(p) == p.Health > 0

\* all orders in which a Go map range may visit the keys in S
Orders(S) ==
    { o \in [1..Cardinality(S) -> S] :
        \A i, j \in 1..Cardinality(S) : i # j => o[i] # o[j] }

\* the intent vector taken as it comes: <<dx*Speed, dy*Speed>>
Step_asSent(dx, dy, speed) == <<dx * speed, dy * speed>>

\* the intent vector scaled to length Speed: <<dx*Speed/length, dy*Speed/length>>
Step(dx, dy, speed) ==
    IF dx = 0 /\ dy = 0 THEN <<0, 0>>
    ELSE LET length == ISqrt(1000000 * (dx * dx + dy * dy))
         IN <<RDiv(dx * speed * 1000, length), RDiv(dy * speed * 1000, length)>>

\* float64: a positive number above 10^MaxExp10 is +Inf, one below
\* 10^MinExp10 is 0
MaxExp10 == 308
MinExp10 == 0 - 324

\* dx*dx + dy*dy for the intent (dx * 10^exp10, dy * 10^exp10) with
\* integers dx, dy of at most two digits, not both 0: +Inf
SquaresOverflow(exp10) == 2 * exp10 > MaxExp10

\* the same sum is 0
SquaresUnderflow(exp10) == 2 * exp10 + 4 < MinExp10

\* the step MovePlayer adds for the intent (dx * 10^exp10, dy * 10^exp10):
\* length = +Inf makes dx/length and dy/length 0; length = 0 leaves dx and
\* dy as they are, and dx*Speed is then below every resolution; otherwise
\* the power of ten cancels in dx/length
StepScaled(dx, dy, exp10, speed) ==
    IF dx = 0 /\ dy = 0 THEN <<0, 0>>
    ELSE IF SquaresOverflow(exp10) \/ SquaresUnderflow(exp10) THEN <<0, 0>>
    ELSE Step(dx, dy, speed)

\* constrainToZone returns the clamped point and the (possibly reset) zone
constrainToZone(player, x, y) ==
    LET zn == IF player.CurrentZone \in ZoneNames THEN player.CurrentZone ELSE "common"
        zone == zones[zn]
        x1 == IF x < zone.MinX THEN zone.MinX ELSE x
        x2 == IF x1 > zone.MaxX THEN zone.MaxX ELSE x1
        y1 == IF y < zone.MinY THEN zone.MinY ELSE y
        y2 == IF y1 > zone.MaxY THEN zone.MaxY ELSE y1
    IN [X |-> x2, Y |-> y2, Zone |-> zn]

\* one iteration of the avoidance loop of MovePlayer against `other`
avoidOne(player, other, newX, newY) ==
    LET dx == newX - other.X
        dy == newY - other.Y
        minDist == player.Radius + other.Radius + CollisionBuffer
    IN IF InsideSq(dx, dy, minDist)
       THEN LET dist64 == ISqrt(4096 * (dx * dx + dy * dy))
                \* cos(atan2(dy,dx))*minDist; atan2(0,0) = 0
                cx == IF dist64 = 0 THEN minDist ELSE RDiv(dx * minDist * 64, dist64)
                sy == IF dist64 = 0 THEN 0 ELSE RDiv(dy * minDist * 64, dist64)
                pushX == other.X + cx
                pushY == other.Y + sy
            IN <<RDiv(7 * newX + 3 * pushX, 10), RDiv(7 * newY + 3 * pushY, 10)>>
       ELSE <<newX, newY>>

RECURSIVE avoidAll(_, _, _, _, _)
avoidAll(player, order, i, newX, newY) ==
    IF i > Len(order) THEN <<newX, newY>>
    ELSE LET a == avoidOne(player, players[order[i]], newX, newY)
         IN avoidAll(player, order, i + 1, a[1], a[2])

\* the portals whose trigger (radius 100) contains the point (x, y)
PortalsInRange(x, y) ==
    { q \in PortalIds :
        WithinSq(x - portals[q].X, y - portals[q].Y, PortalRadius) }

\* checkPortalInteraction without the cooldown test
checkPortalInteraction_noCooldown(player) ==
    PortalsInRange(player.X, player.Y)

\* checkPortalInteraction: the portals the range loop may teleport through
\* (none while the cooldown runs)
checkPortalInteraction(player) ==
    IF now < player.PortalCooldown THEN {}
    ELSE PortalsInRange(player.X, player.Y)

\* teleportPlayer that forgets to switch the zone
teleportPlayer_keepZone(player, fromPortal) ==
    LET toPortal == portals[portals[fromPortal].To]
    IN [player EXCEPT !.X = toPortal.X, !.Y = toPortal.Y,
                      !.PortalCooldown = now + PortalCooldownTime]

teleportPlayer(player, fromPortal) ==
    LET toPortal == portals[portals[fromPortal].To]
    IN [player EXCEPT !.X = toPortal.X, !.Y = toPortal.Y,
                      !.CurrentZone = toPortal.Zone,
                      !.PortalCooldown = now + PortalCooldownTime]

PortalNote(playerID, fromPortal) ==
    [to |-> playerID, type |-> "portal_teleport",
     fromZone |-> portals[fromPortal].Zone,
     toZone |-> portals[portals[fromPortal].To].Zone]

\* via[p]: the portal p last teleported through, when, and how many times
NoVia == [portal |-> "none", at |-> 0, n |-> 0]

\* last: the operation of the last step and what it did: op/pid, the position
\* MovePlayer stored before the portal check (x, y), the portal it went
\* through, the damage events (hits: who hit whom, the attacker's health hp,
\* the victim's health left), the drops created (made), taken (picked) and
\* deleted as expired
\* no state message
NoSnap == [kind |-> "none", zone |-> "none", players |-> {}, mobs |-> {}, drops |-> {}]

NoLast == [op |-> "none", pid |-> "none", x |-> 0, y |-> 0, portal |-> "none",
           hits |-> {}, made |-> {}, picked |-> {}, expired |-> {},
           spawn |-> << >>, snap |-> NoSnap, unlocked |-> {}, failed |-> FALSE,
           dx |-> 0, dy |-> 0, frame |-> "none", exp10 |-> 0]

\* MovePlayer for the intent (dx * 10^exp10, dy * 10^exp10)
MovePlayerScaled(playerID, dx, dy, exp10, limit) ==
    /\ nmoves < limit
    /\ nmoves' = nmoves + 1
    /\ Lock
    /\ UNCHANGED srvvars
    /\ UNCHANGED <<connections, mobs, petalDrops, revives, now, petalPc, petalTick, collTick, aiTick>>
    /\ IF playerID \notin DOMAIN players
       THEN /\ UNCHANGED <<players, via>>
            /\ sent' = << >>
            /\ last' = [NoLast EXCEPT !.op = "MovePlayer", !.dx = dx, !.dy = dy, !.exp10 = exp10, !.pid = playerID]
       ELSE LET player == players[playerID]
                st == StepScaled(dx, dy, exp10, player.Speed)
                c == constrainToZone(player, player.X + st[1], player.Y + st[2])
            IN \E order \in Orders(DOMAIN players \ {playerID}) :
                 LET a == avoidAll(player, order, 1, c.X, c.Y)
                     moved == [player EXCEPT !.X = a[1], !.Y = a[2],
                                             !.CurrentZone = c.Zone]
                     inRange == checkPortalInteraction(moved)
                 IN IF inRange = {}
                    THEN /\ players' = [players EXCEPT ![playerID] = moved]
                         /\ sent' = << >>
                         /\ via' = via
                         /\ last' = [NoLast EXCEPT !.op = "MovePlayer", !.dx = dx, !.dy = dy, !.exp10 = exp10,
                                       !.pid = playerID, !.x = a[1], !.y = a[2]]
                    ELSE \E q \in inRange :
                         /\ players' = [players EXCEPT
                                          ![playerID] = teleportPlayer(moved, q)]
                         /\ sent' = IF playerID \in connections
                                    THEN <<PortalNote(playerID, q)>> ELSE << >>
                         /\ via' = [via EXCEPT ![playerID] =
                                       [portal |-> q, at |-> now, n |-> @.n + 1]]
                         /\ last' = [NoLast EXCEPT !.op = "MovePlayer", !.dx = dx, !.dy = dy, !.exp10 = exp10,
                                       !.pid = playerID, !.x = a[1], !.y = a[2],
                                       !.portal = q]

\* MovePlayer for an intent of small integers
MovePlayer(playerID, dx, dy, limit) == MovePlayerScaled(playerID, dx, dy, 0, limit)

\* the clock advances by d (up to limit); the 100 ms ticker of the petal
\* system loop fires meanwhile (at most one tick is buffered)
Advance(d, limit) ==
    /\ now + d <= limit
    /\ now' = now + d
    /\ petalTick' = TRUE
    /\ collTick' = TRUE
    /\ aiTick' = TRUE
    /\ sent' = << >>
    /\ last' = [NoLast EXCEPT !.op = "Advance"]
    /\ UNCHANGED srvvars
    /\ UNCHANGED <<players, connections, mobs, petalDrops, revives, petalPc, via, nmoves>>


---------------------------------------------------------------------------
(* Mobs *)

MobIds == {"m1", "m2", "m3"}

\* MobConfigs: base health, damage, speed (tenths per tick), radius and
\* detection range (tenths) of the archetypes
MobConfigs ==
    [ goblin |-> [Health |-> 30, Damage |-> 8,  Speed |-> 100, Radius |-> 70,
                  DetectionRange |-> 5000],
      orc    |-> [Health |-> 80, Damage |-> 15, Speed |-> 200, Radius |-> 250,
                  DetectionRange |-> 5000],
      wolf   |-> [Health |-> 40, Damage |-> 10, Speed |-> 150, Radius |-> 120,
                  DetectionRange |-> 5000] ]

\* RarityMultipliers in hundredths: health, damage, radius, speed
RarityMultipliers ==
    [ common    |-> [HealthMultiplier |-> 100, DamageMultiplier |-> 100,
                     RadiusMultiplier |-> 100, SpeedMultiplier |-> 100],
      uncommon  |-> [HealthMultiplier |-> 140, DamageMultiplier |-> 130,
                     RadiusMultiplier |-> 140, SpeedMultiplier |-> 110],
      rare      |-> [HealthMultiplier |-> 180, DamageMultiplier |-> 160,
                     RadiusMultiplier |-> 180, SpeedMultiplier |-> 120],
      epic      |-> [HealthMultiplier |-> 225, DamageMultiplier |-> 200,
                     RadiusMultiplier |-> 225, SpeedMultiplier |-> 130],
      legendary |-> [HealthMultiplier |-> 675, DamageMultiplier |-> 600,
                     RadiusMultiplier |-> 675, SpeedMultiplier |-> 150] ]

\* time.Time{}, the value of a time field that was never set: an instant
\* before every clock reading
ZeroTime == 0 - 1

\* the rarities getRandomRarity can return in a zone
ZoneRarityDistribution ==
    [ common    |-> {"common", "uncommon"},
      uncommon  |-> {"common", "uncommon", "rare"},
      rare      |-> {"common", "uncommon", "rare", "epic"},
      epic      |-> {"common", "uncommon", "rare", "epic"},
      legendary |-> {"common", "legendary"} ]

\* NewMob with the rarity drawn and the radius offset (in [-50, 50) tenths)
NewMob(mobType, rarity, x, y, zone, randomOffset) ==
    LET config == MobConfigs[mobType]
        multiplier == RarityMultipliers[rarity]
        radius == RDiv(config.Radius * multiplier.RadiusMultiplier, 100) + randomOffset
    IN [ Type |-> mobType, Rarity |-> rarity,
         Health |-> (config.Health * multiplier.HealthMultiplier) \div 100,
         MaxHealth |-> (config.Health * multiplier.HealthMultiplier) \div 100,
         Damage |-> (config.Damage * multiplier.DamageMultiplier) \div 100,
         Speed |-> (config.Speed * multiplier.SpeedMultiplier) \div 100,
         X |-> x, Y |-> y, Zone |-> zone,
         Radius |-> IF radius < 20 THEN 20 ELSE radius,
         DetectionRange |-> config.DetectionRange,
         TargetX |-> 0, TargetY |-> 0, LastMoveTime |-> now,
         State |-> "wandering", TargetPlayer |-> "",
         AttackCooldown |-> ZeroTime, CreationTime |-> now,
         LastHitTime |-> now ]

\* m.Health -= damage without the clamp
MobTakeDamage_unclamped(m, damage) == [m EXCEPT !.Health = @ - damage]

MobTakeDamage(m, damage) ==
    [m EXCEPT !.Health = IF @ - damage < 0 THEN 0 ELSE @ - damage]

MobIsAlive(m) == m.Health > 0

\* time.Since(m.LastHitTime) >= 100 ms
MobCanAttack(m) == now - m.LastHitTime >= 1

\* MarkAttack that leaves LastHitTime as it is
MobMarkAttack_forgets(m) == m

MobMarkAttack(m) == [m EXCEPT !.LastHitTime = now]

\* the archetype -> petal type switch of the two collision handlers
PetalTypeOf(mobType) ==
    CASE mobType = "wolf" -> "wolf"
      [] mobType = "goblin" -> "goblin"
      [] mobType = "orc" -> "orc"
      [] OTHER -> "goblin"

---------------------------------------------------------------------------
(* Petals *)

\* PetalConfigs; Radius in tenths, Speed in milliradians per 100 ms tick,
\* HealRate in 100 ms units
PetalConfigs ==
    [ wolf   |-> [Health |-> 50, Damage |-> 0,  HealAmount |-> 5, HealRate |-> 20,
                  Radius |-> 600, Speed |-> 150],
      goblin |-> [Health |-> 15, Damage |-> 20, HealAmount |-> 0, HealRate |-> 0,
                  Radius |-> 500, Speed |-> 200],
      orc    |-> [Health |-> 20, Damage |-> 12, HealAmount |-> 0, HealRate |-> 0,
                  Radius |-> 700, Speed |-> 120] ]

NewPetal(petalType, ownerID) ==
    LET config == PetalConfigs[petalType]
    IN [ Type |-> petalType, Health |-> config.Health, MaxHealth |-> config.Health,
         Damage |-> config.Damage, HealAmount |-> config.HealAmount,
         HealRate |-> config.HealRate, Radius |-> config.Radius, Angle |-> 0,
         Speed |-> config.Speed, OwnerID |-> ownerID, IsActive |-> TRUE,
         LastHeal |-> now, LastAttack |-> now, X |-> 0, Y |-> 0 ]

\* angles are in milliradians
TwoPi == 6283
Pi == 3142
HalfPi == 1571

\* 10000 * sin(x / 1000) for 0 <= x <= HalfPi (Taylor polynomial of degree 7)
SinQ(x) ==
    LET x2 == RDiv(x * x, 1000)
        a == 10000 - RDiv(x2 * 10, 42)
        b == 10000 - RDiv(x2 * a, 20000)
        c == 10000 - RDiv(x2 * b, 6000)
    IN RDiv(x * c, 1000)

\* 10000 * cos(x / 1000) for 0 <= x <= HalfPi (Taylor polynomial of degree 8)
CosQ(x) ==
    LET x2 == RDiv(x * x, 1000)
        a == 10000 - RDiv(x2 * 10, 56)
        b == 10000 - RDiv(x2 * a, 30000)
        c == 10000 - RDiv(x2 * b, 12000)
    IN 10000 - RDiv(x2 * c, 2000)

\* 10000 * math.Sin and math.Cos of an angle in [0, TwoPi + HalfPi]
Sin(t) ==
    IF t <= HalfPi THEN SinQ(t)
    ELSE IF t <= Pi THEN SinQ(Pi - t)
    ELSE IF t <= Pi + HalfPi THEN 0 - SinQ(t - Pi)
    ELSE IF t <= TwoPi THEN 0 - SinQ(TwoPi - t)
    ELSE SinQ(t - TwoPi)

Cos(t) ==
    IF t <= HalfPi THEN CosQ(t)
    ELSE IF t <= Pi THEN 0 - CosQ(Pi - t)
    ELSE IF t <= Pi + HalfPi THEN 0 - CosQ(t - Pi)
    ELSE IF t <= TwoPi THEN CosQ(TwoPi - t)
    ELSE CosQ(t - TwoPi)

\* UpdatePosition that orbits the origin instead of the owner
UpdatePosition_origin(petal, playerX, playerY) ==
    LET a1 == petal.Angle + petal.Speed
        a2 == IF a1 > TwoPi THEN a1 - TwoPi ELSE a1
    IN [petal EXCEPT !.Angle = a2,
                     !.X = RDiv(petal.Radius * Cos(a2), 10000),
                     !.Y = RDiv(petal.Radius * Sin(a2), 10000)]

\* Petal.UpdatePosition with deltaTime = 0.1, storing the result (updatePetals)
UpdatePosition(petal, playerX, playerY) ==
    LET a1 == petal.Angle + petal.Speed
        a2 == IF a1 > TwoPi THEN a1 - TwoPi ELSE a1
    IN [petal EXCEPT !.Angle = a2,
                     !.X = playerX + RDiv(petal.Radius * Cos(a2), 10000),
                     !.Y = playerY + RDiv(petal.Radius * Sin(a2), 10000)]

\* CanHeal without the test of the heal interval
PetalCanHeal_anytime(petal) == petal.IsActive /\ petal.HealAmount > 0

\* time.Since(LastHeal) >= HealRate seconds
PetalCanHeal(petal) ==
    petal.IsActive /\ petal.HealAmount > 0 /\ now - petal.LastHeal >= petal.HealRate

\* time.Since(LastAttack) >= 500 ms
PetalCanAttack(petal) ==
    petal.IsActive /\ petal.Damage > 0 /\ now - petal.LastAttack >= 5

\* TakeDamage without the floor at zero and without the deactivation
PetalTakeDamage_unclamped(petal, damage) == [petal EXCEPT !.Health = @ - damage]

PetalTakeDamage(petal, damage) ==
    IF petal.Health - damage <= 0
    THEN [petal EXCEPT !.Health = 0, !.IsActive = FALSE]
    ELSE [petal EXCEPT !.Health = @ - damage]

\* Respawn that reactivates the petal without restoring its health
PetalRespawn_keepHealth(petal) == [petal EXCEPT !.IsActive = TRUE]

PetalRespawn(petal) == [petal EXCEPT !.Health = petal.MaxHealth, !.IsActive = TRUE]

\* the smallest positive number not in S: a fresh id
FreshId(S) == CHOOSE n \in 1..(Cardinality(S) + 1) :
                 n \notin S /\ \A k \in 1..(n - 1) : k \in S

---------------------------------------------------------------------------
(* Player methods the collision and petal code calls.  AddPetal,            *)
(* RemoveAllPetals, GetActivePetals and TakeDamageFromMob are called by the *)
(* game code but defined in no source file; they follow the specification.  *)

\* "the owner gains one matching item"
AddPetal(player, playerID, petalType, usedIds) ==
    LET id == FreshId(DOMAIN player.Petals \cup usedIds)
    IN [player EXCEPT !.Petals = @ @@ (id :> NewPetal(petalType, playerID))]

\* "strip all owned companion items"
RemoveAllPetals(player) == [player EXCEPT !.Petals = << >>]

GetActivePetals(player) == { i \in DOMAIN player.Petals : player.Petals[i].IsActive }

\* the creature's damage is applied, health clamped at 0; reports the hit
TakeDamageFromMob(player, damage) ==
    [player EXCEPT !.Health = IF @ - damage < 0 THEN 0 ELSE @ - damage]

\* time.Since(p.LastHitTime) >= 100 ms
PlayerCanAttack(p) == now - p.LastHitTime >= 1

PlayerMarkAttack(p) == [p EXCEPT !.LastHitTime = now]

PlayerRespawn(p, x, y) ==
    [p EXCEPT !.Health = p.MaxHealth, !.X = x, !.Y = y, !.LastHitTime = now]

---------------------------------------------------------------------------
(* Collisions between players and mobs.  The loops work on a record w of   *)
(* the stores plus the messages sent and the events of this call.          *)

World ==
    [players |-> players, mobs |-> mobs, drops |-> petalDrops, revives |-> revives,
     sent |-> << >>, hits |-> {}, made |-> {}, picked |-> {}, coarse |-> FALSE]

\* conn.WriteJSON(msg) if the player has a connection
Send(w, playerID, msg) ==
    IF playerID \in connections
    THEN [w EXCEPT !.sent = Append(@, [to |-> playerID] @@ msg)]
    ELSE w

\* 30 * time.Second
DropLifetime == 300

\* createPetalDrop without the lookup of the owner
createPetalDrop_anyOwner(w, playerID, petalType, x, y, mobID) ==
    [w EXCEPT !.drops = (FreshId(DOMAIN w.drops) :>
                           [Type |-> petalType, X |-> x, Y |-> y,
                            OwnerID |-> playerID, Zone |-> "common",
                            Created |-> now, Lifetime |-> DropLifetime]) @@ @]

\* the id of a drop is the nanosecond reading of the clock at its creation:
\* a new value, or (w.coarse) the reading an earlier drop of the same moment
\* was created at, whose entry the map assignment then replaces
createPetalDrop(w, playerID, petalType, x, y, mobID) ==
    IF playerID \notin DOMAIN w.players THEN w
    ELSE LET peers == { k \in DOMAIN w.drops : w.drops[k].Created = now }
             id == IF w.coarse /\ peers # {}
                   THEN CHOOSE k \in peers : TRUE
                   ELSE FreshId(DOMAIN w.drops)
             drop == [Type |-> petalType, X |-> x, Y |-> y, OwnerID |-> playerID,
                      Zone |-> w.players[playerID].CurrentZone,
                      Created |-> now, Lifetime |-> DropLifetime]
             w1 == [w EXCEPT !.drops = (id :> drop) @@ @,
                             !.made = @ \cup {[mob |-> mobID, id |-> id]}]
         IN Send(w1, playerID, [type |-> "petal_drop_created", id |-> id,
                                kind |-> petalType, x |-> x, y |-> y])

handlePlayerDeath(w, playerID) ==
    LET w1 == Send(w, playerID, [type |-> "player_died",
                                 health |-> w.players[playerID].Health])
    IN [w1 EXCEPT !.players[playerID] = RemoveAllPetals(@)]

\* first half of handlePlayerMobCollision: the mob attacks the player
mobAttacksPlayer(w, playerID, mobID) ==
    LET mob == w.mobs[mobID]
        hurt == TakeDamageFromMob(w.players[playerID], mob.Damage)
        w1 == [w EXCEPT !.players[playerID] = hurt,
                        !.mobs[mobID] = MobMarkAttack(@),
                        !.hits = @ \cup {[kind |-> "mob_player", by |-> mobID,
                                          on |-> playerID, hp |-> mob.Health,
                                          left |-> hurt.Health]}]
        w2 == Send(w1, playerID, [type |-> "damage_taken", damage |-> mob.Damage,
                                  health |-> hurt.Health])
    IN IF ~PlayerIsAlive(hurt) THEN handlePlayerDeath(w2, playerID) ELSE w2

\* second half of handlePlayerMobCollision: the player attacks the mob
playerAttacksMob(w, playerID, mobID) ==
    LET player == w.players[playerID]
        hurt == MobTakeDamage(w.mobs[mobID], player.CollisionDamage)
        w1 == [w EXCEPT !.mobs[mobID] = hurt,
                        !.players[playerID] = PlayerMarkAttack(@),
                        !.hits = @ \cup {[kind |-> "player_mob", by |-> playerID,
                                          on |-> mobID, hp |-> player.Health,
                                          left |-> hurt.Health]}]
    IN IF ~MobIsAlive(hurt)
       THEN Send(createPetalDrop(w1, playerID, PetalTypeOf(hurt.Type),
                                 hurt.X, hurt.Y, mobID),
                 playerID, [type |-> "mob_killed", mob_type |-> hurt.Type])
       ELSE w1

handlePlayerMobCollision(w, playerID, mobID) ==
    LET w1 == IF MobCanAttack(w.mobs[mobID])
              THEN mobAttacksPlayer(w, playerID, mobID) ELSE w
    IN IF PlayerCanAttack(w1.players[playerID])
       THEN playerAttacksMob(w1, playerID, mobID) ELSE w1

\* player.DistanceTo(mob.X, mob.Y) < player.Radius + mob.Radius
PlayerTouchesMob(player, mob) ==
    InsideSq(player.X - mob.X, player.Y - mob.Y, player.Radius + mob.Radius)

\* the inner loop of checkCollisions for one player over the mobs in order mo
RECURSIVE collideMobs(_, _, _, _)
collideMobs(w, playerID, mo, j) ==
    IF j > Len(mo) THEN w
    ELSE LET mob == w.mobs[mo[j]]
             player == w.players[playerID]
             w1 == IF ~MobIsAlive(mob) \/ mob.Zone # player.CurrentZone THEN w
                   ELSE IF PlayerTouchesMob(player, mob)
                        THEN handlePlayerMobCollision(w, playerID, mo[j])
                        ELSE w
         IN collideMobs(w1, playerID, mo, j + 1)

\* the outer loop of checkCollisions over the players in order po
RECURSIVE collidePlayers(_, _, _, _)
collidePlayers(w, po, mo, i) ==
    IF i > Len(po) THEN w
    ELSE LET w1 == IF ~PlayerIsAlive(w.players[po[i]]) THEN w
                   ELSE collideMobs(w, po[i], mo, 1)
         IN collidePlayers(w1, po, mo, i + 1)

\* removeDeadMobs that deletes nothing
removeDeadMobs_none(ms) == ms

removeDeadMobs(ms) ==
    [m \in {k \in DOMAIN ms : MobIsAlive(ms[k])} |-> ms[m]]

\* one round of collisionLoop: the 100 ms ticker has fired
checkCollisions ==
    \E po \in Orders(DOMAIN players), mo \in Orders(DOMAIN mobs), co \in BOOLEAN :
       LET w == collidePlayers([World EXCEPT !.coarse = co], po, mo, 1)
       IN /\ players' = w.players
          /\ mobs' = removeDeadMobs(w.mobs)
          /\ petalDrops' = w.drops
          /\ sent' = w.sent
          /\ last' = [NoLast EXCEPT !.op = "checkCollisions", !.hits = w.hits,
                                    !.made = w.made]
          /\ Lock
          /\ UNCHANGED srvvars
          /\ UNCHANGED <<connections, revives, now, petalPc, petalTick, aiTick, via, nmoves>>
          /\ collTick
          /\ collTick' = FALSE

---------------------------------------------------------------------------
(* The petal system loop: every 100 ms tick it calls updatePetals,         *)
(* checkPetalDrops, checkPetalCollisions and checkPetalHealing, each under *)
(* its own acquisition of Game.mu; petalPc is the call it makes next.      *)

updatePetals ==
    /\ petalPc = "update"
    /\ petalTick
    /\ petalTick' = FALSE
    /\ petalPc' = "drops"
    /\ players' = [p \in DOMAIN players |->
                     [players[p] EXCEPT !.Petals =
                        [i \in DOMAIN players[p].Petals |->
                           IF players[p].Petals[i].IsActive
                           THEN UpdatePosition(players[p].Petals[i],
                                               players[p].X, players[p].Y)
                           ELSE players[p].Petals[i]]]]
    /\ sent' = << >>
    /\ last' = [NoLast EXCEPT !.op = "updatePetals"]
    /\ Lock
    /\ UNCHANGED srvvars
    /\ UNCHANGED <<connections, mobs, petalDrops, revives, now, collTick, aiTick, via, nmoves>>

\* PetalDrop.IsExpired: time.Since(d.Created) > d.Lifetime
IsExpired(d) == now - d.Created > d.Lifetime

\* CanBePickedBy that lets every player take the drop
CanBePickedBy_anyone(d, playerID) == TRUE

\* PetalDrop.CanBePickedBy
CanBePickedBy(d, playerID) == d.OwnerID = playerID

\* radius of pickup: 50 units
PickupRadius == 500

\* the test of checkPetalDrops without player.IsAlive()
MayPickUp_dead(player, playerID, d) ==
    /\ CanBePickedBy(d, playerID)
    /\ InsideSq(player.X - d.X, player.Y - d.Y, PickupRadius)

\* the test of checkPetalDrops that lets a player take a drop
MayPickUp(player, playerID, d) ==
    /\ CanBePickedBy(d, playerID)
    /\ PlayerIsAlive(player)
    /\ InsideSq(player.X - d.X, player.Y - d.Y, PickupRadius)

\* ids of petals that pending revive timers of this owner still name
TimerIds(w, playerID) ==
    { w.revives[k].petal : k \in { j \in 1..Len(w.revives) :
                                     w.revives[j].owner = playerID } }

pickUpPetal(w, playerID, dropID) ==
    LET drop == w.drops[dropID]
        w1 == [w EXCEPT
                 !.players[playerID] = AddPetal(@, playerID, drop.Type,
                                                TimerIds(w, playerID)),
                 !.drops = [k \in DOMAIN w.drops \ {dropID} |-> w.drops[k]],
                 !.picked = @ \cup {[player |-> playerID, drop |-> dropID,
                                     kind |-> drop.Type, x |-> drop.X,
                                     y |-> drop.Y]}]
    IN Send(w1, playerID, [type |-> "petal_picked_up", kind |-> drop.Type])

\* the worlds one player's pass over the drops can produce: it takes the
\* first drop in range order that it may pick up, then breaks
PickOne(w, playerID) ==
    LET cand == { d \in DOMAIN w.drops :
                    MayPickUp(w.players[playerID], playerID, w.drops[d]) }
    IN IF cand = {} THEN {w}
       ELSE { pickUpPetal(w, playerID, d) : d \in cand }

RECURSIVE PickAll(_, _, _)
PickAll(W, po, i) ==
    IF i > Len(po) THEN W
    ELSE PickAll(UNION { PickOne(w, po[i]) : w \in W }, po, i + 1)

checkPetalDrops ==
    /\ petalPc = "drops"
    /\ petalPc' = "collisions"
    /\ LET live == { d \in DOMAIN petalDrops : ~IsExpired(petalDrops[d]) }
           w0 == [World EXCEPT !.drops = [d \in live |-> petalDrops[d]]]
       IN \E po \in Orders(DOMAIN players) :
            \E w \in PickAll({w0}, po, 1) :
               /\ players' = w.players
               /\ petalDrops' = w.drops
               /\ sent' = w.sent
               /\ last' = [NoLast EXCEPT !.op = "checkPetalDrops",
                                         !.picked = w.picked,
                                         !.expired = DOMAIN petalDrops \ live]
    /\ Lock
    /\ UNCHANGED srvvars
    /\ UNCHANGED <<connections, mobs, revives, now, petalTick, collTick, aiTick, via, nmoves>>

\* 2 * time.Second
ReviveDelay == 20

handlePetalDestroyed(w, playerID, petalID) ==
    Send([w EXCEPT !.revives = Append(@, [owner |-> playerID, petal |-> petalID,
                                          at |-> now + ReviveDelay])],
         playerID, [type |-> "petal_destroyed", petal_id |-> petalID])

\* first half of handlePetalMobCollision: the petal attacks the mob
petalAttacksMob(w, playerID, petalID, mobID) ==
    LET petal == w.players[playerID].Petals[petalID]
        hurt == MobTakeDamage(w.mobs[mobID], petal.Damage)
        w1 == [w EXCEPT !.mobs[mobID] = hurt,
                        !.players[playerID].Petals[petalID].LastAttack = now,
                        !.hits = @ \cup {[kind |-> "petal_mob", by |-> playerID,
                                          on |-> mobID,
                                          hp |-> w.players[playerID].Health,
                                          left |-> hurt.Health]}]
    IN IF ~MobIsAlive(hurt)
       THEN Send(Send(createPetalDrop(w1, petal.OwnerID, PetalTypeOf(hurt.Type),
                                      hurt.X, hurt.Y, mobID),
                      playerID, [type |-> "mob_killed", mob_type |-> hurt.Type]),
                 petal.OwnerID, [type |-> "mob_killed_by_petal",
                                 mob_type |-> hurt.Type, petal_type |-> petal.Type])
       ELSE w1

\* second half of handlePetalMobCollision: the mob attacks the petal
mobAttacksPetal(w, playerID, petalID, mobID) ==
    LET hurt == PetalTakeDamage(w.players[playerID].Petals[petalID],
                                w.mobs[mobID].Damage)
        w1 == [w EXCEPT !.players[playerID].Petals[petalID] = hurt,
                        !.mobs[mobID] = MobMarkAttack(@),
                        !.hits = @ \cup {[kind |-> "mob_petal", by |-> mobID,
                                          on |-> playerID,
                                          hp |-> w.mobs[mobID].Health,
                                          left |-> hurt.Health]}]
    IN IF ~hurt.IsActive THEN handlePetalDestroyed(w1, playerID, petalID) ELSE w1

handlePetalMobCollision(w, playerID, petalID, mobID) ==
    LET w1 == IF PetalCanAttack(w.players[playerID].Petals[petalID])
              THEN petalAttacksMob(w, playerID, petalID, mobID) ELSE w
    IN IF MobCanAttack(w1.mobs[mobID])
       THEN mobAttacksPetal(w1, playerID, petalID, mobID) ELSE w1

\* distance(petal, mob) < 10 + mob.Radius
PetalTouchesMob(petal, mob) ==
    InsideSq(petal.X - mob.X, petal.Y - mob.Y, 100 + mob.Radius)

\* one petal against the mobs in range order mo
RECURSIVE petalVsMobs(_, _, _, _, _)
petalVsMobs(w, playerID, petalID, mo, j) ==
    IF j > Len(mo) THEN w
    ELSE LET mob == w.mobs[mo[j]]
             w1 == IF ~MobIsAlive(mob) \/ mob.Zone # w.players[playerID].CurrentZone
                   THEN w
                   ELSE IF PetalTouchesMob(w.players[playerID].Petals[petalID], mob)
                        THEN handlePetalMobCollision(w, playerID, petalID, mo[j])
                        ELSE w
         IN petalVsMobs(w1, playerID, petalID, mo, j + 1)

\* the petals in list order qo, each against a fresh range over the mobs
RECURSIVE PetalsVsMobs(_, _, _, _)
PetalsVsMobs(W, playerID, qo, i) ==
    IF i > Len(qo) THEN W
    ELSE PetalsVsMobs(
           UNION { { petalVsMobs(w, playerID, qo[i], mo, 1) :
                       mo \in Orders(DOMAIN w.mobs) } : w \in W },
           playerID, qo, i + 1)

\* the players in range order po, each with its GetActivePetals list
RECURSIVE PlayersPetalsVsMobs(_, _, _)
PlayersPetalsVsMobs(W, po, i) ==
    IF i > Len(po) THEN W
    ELSE PlayersPetalsVsMobs(
           UNION { UNION { PetalsVsMobs({w}, po[i], qo, 1) :
                             qo \in Orders(GetActivePetals(w.players[po[i]])) } :
                   w \in W },
           po, i + 1)

checkPetalCollisions ==
    /\ petalPc = "collisions"
    /\ petalPc' = "healing"
    /\ \E po \in Orders(DOMAIN players), co \in BOOLEAN :
         \E w \in PlayersPetalsVsMobs({[World EXCEPT !.coarse = co]}, po, 1) :
            /\ players' = w.players
            /\ mobs' = w.mobs
            /\ petalDrops' = w.drops
            /\ revives' = w.revives
            /\ sent' = w.sent
            /\ last' = [NoLast EXCEPT !.op = "checkPetalCollisions",
                                      !.hits = w.hits, !.made = w.made]
    /\ Lock
    /\ UNCHANGED srvvars
    /\ UNCHANGED <<connections, now, petalTick, collTick, aiTick, via, nmoves>>

\* the body of the healing loop for one petal
healOne(w, playerID, petalID) ==
    LET player == w.players[playerID]
        petal == player.Petals[petalID]
        h == IF player.Health + petal.HealAmount > player.MaxHealth
             THEN player.MaxHealth ELSE player.Health + petal.HealAmount
    IN IF PetalCanHeal(petal) /\ player.Health < player.MaxHealth
       THEN Send([w EXCEPT !.players[playerID].Health = h,
                           !.players[playerID].Petals[petalID].LastHeal = now],
                 playerID, [type |-> "petal_healed", petal_id |-> petalID,
                            amount |-> petal.HealAmount, health |-> h])
       ELSE w

RECURSIVE healPetals(_, _, _, _)
healPetals(w, playerID, qo, i) ==
    IF i > Len(qo) THEN w
    ELSE healPetals(healOne(w, playerID, qo[i]), playerID, qo, i + 1)

RECURSIVE HealPlayers(_, _, _)
HealPlayers(W, po, i) ==
    IF i > Len(po) THEN W
    ELSE HealPlayers(
           UNION { { healPetals(w, po[i], qo, 1) :
                       qo \in Orders(DOMAIN w.players[po[i]].Petals) } : w \in W },
           po, i + 1)

checkPetalHealing ==
    /\ petalPc = "healing"
    /\ petalPc' = "update"
    /\ \E po \in Orders(DOMAIN players) :
         \E w \in HealPlayers({World}, po, 1) :
            /\ players' = w.players
            /\ sent' = w.sent
            /\ last' = [NoLast EXCEPT !.op = "checkPetalHealing"]
    /\ Lock
    /\ UNCHANGED srvvars
    /\ UNCHANGED <<connections, mobs, petalDrops, revives, now, petalTick, collTick, aiTick, via, nmoves>>

\* the goroutine started by handlePetalDestroyed, after its 2 s sleep
ReviveFire(k) ==
    /\ k \in 1..Len(revives)
    /\ now >= revives[k].at
    /\ revives' = [j \in 1..(Len(revives) - 1) |->
                     IF j < k THEN revives[j] ELSE revives[j + 1]]
    /\ LET r == revives[k]
       IN IF r.owner \in DOMAIN players /\ r.petal \in DOMAIN players[r.owner].Petals
          THEN /\ players' = [players EXCEPT ![r.owner].Petals[r.petal] = PetalRespawn(@)]
               /\ sent' = Send(World, r.owner, [type |-> "petal_respawned",
                                                petal_id |-> r.petal]).sent
          ELSE /\ players' = players
               /\ sent' = << >>
    /\ last' = [NoLast EXCEPT !.op = "ReviveFire", !.pid = revives[k].owner]
    /\ Lock
    /\ UNCHANGED srvvars
    /\ UNCHANGED <<connections, mobs, petalDrops, now, petalPc, petalTick, collTick, aiTick, via, nmoves>>

---------------------------------------------------------------------------
(* Respawn *)

\* points rand.Float64 can draw in the common zone
SpawnSamples == { <<30000, 15000>>, <<12345, 6789>>, <<57500, 15000>> }

\* the safety test of findSafeSpawnPosition for one other player
TooClose(x, y, other) ==
    InsideSq(x - other.X, y - other.Y, 3 * other.Radius)

\* some point of the zone fails the safety test, so 20 draws can all fail
CanFallBack(zoneName, excludeID) ==
    \E p \in DOMAIN players \ {excludeID} :
       LET zone == zones[zoneName]
           nx == IF players[p].X < zone.MinX THEN zone.MinX
                 ELSE IF players[p].X > zone.MaxX THEN zone.MaxX ELSE players[p].X
           ny == IF players[p].Y < zone.MinY THEN zone.MinY
                 ELSE IF players[p].Y > zone.MaxY THEN zone.MaxY ELSE players[p].Y
       IN TooClose(nx, ny, players[p])

\* the points findSafeSpawnPosition can return
findSafeSpawnPosition(zoneName, excludeID) ==
    { s \in SpawnSamples :
        /\ InZone(zoneName, s[1], s[2])
        /\ \A p \in DOMAIN players \ {excludeID} : ~TooClose(s[1], s[2], players[p]) }
    \cup
    ( IF CanFallBack(zoneName, excludeID)
      THEN { << (zones[zoneName].MinX + zones[zoneName].MaxX) \div 2,
                (zones[zoneName].MinY + zones[zoneName].MaxY) \div 2 >> }
      ELSE {} )

RespawnPlayer(playerID, limit) ==
    /\ nmoves < limit
    /\ nmoves' = nmoves + 1
    /\ Lock
    /\ UNCHANGED srvvars
    /\ UNCHANGED <<connections, mobs, petalDrops, revives, now, petalPc, petalTick,
                   collTick, aiTick, via>>
    /\ last' = [NoLast EXCEPT !.op = "RespawnPlayer", !.pid = playerID]
    /\ IF playerID \notin DOMAIN players \/ PlayerIsAlive(players[playerID])
       THEN /\ players' = players
            /\ sent' = << >>
       ELSE \E s \in findSafeSpawnPosition("common", playerID) :
            LET p == PlayerRespawn(players[playerID], s[1], s[2])
            IN /\ players' = [players EXCEPT ![playerID] = p]
               /\ sent' = Send(World, playerID,
                               [type |-> "player_respawned", health |-> p.Health,
                                x |-> p.X, y |-> p.Y, zone |-> p.CurrentZone]).sent

---------------------------------------------------------------------------
(* Mob spawning *)

\* maxMobsPerZone
maxMobsPerZone == 40

\* a spawn point is unsafe within 200 of a player
SpawnExclusion == 2000

ZoneCount(ms, z) == Cardinality({ k \in DOMAIN ms : ms[k].Zone = z })

\* what the random source and the clock give one spawn cycle: the archetype
\* and batch size of its attempts, the points drawn in turn (hundredths of
\* the zone's width and height), the rarity roll, the radius jitter, and
\* whether the second mob of a zone is named by the same clock reading as
\* the first
SpawnTapes ==
    { [mobType |-> "goblin", count |-> 1, spots |-> << <<50, 50>> >>,
       high |-> FALSE, offset |-> 0 - 50, coarse |-> FALSE],
      [mobType |-> "orc", count |-> 3, spots |-> << <<50, 50>> >>,
       high |-> TRUE, offset |-> 0, coarse |-> FALSE],
      [mobType |-> "orc", count |-> 3, spots |-> << <<10, 20>> >>,
       high |-> FALSE, offset |-> 49, coarse |-> FALSE],
      [mobType |-> "wolf", count |-> 2, spots |-> << <<50, 50>>, <<10, 20>> >>,
       high |-> TRUE, offset |-> 0, coarse |-> TRUE],
      [mobType |-> "goblin", count |-> 2, spots |-> << <<75, 90>> >>,
       high |-> FALSE, offset |-> 0, coarse |-> FALSE] }

\* getRandomRarity: the lowest or the highest tier of the zone's table
RarityRoll(zoneName, high) ==
    LET tiers == <<"common", "uncommon", "rare", "epic", "legendary">>
        have == { i \in 1..5 : tiers[i] \in ZoneRarityDistribution[zoneName] }
    IN IF high THEN tiers[CHOOSE i \in have : \A j \in have : j <= i]
       ELSE tiers[CHOOSE i \in have : \A j \in have : i <= j]

\* the id of the next mob of a zone: mob_<zone>_<clock reading>
MobId(st, zoneName, tape) ==
    IF tape.coarse /\ st.spawned = 1 THEN <<zoneName, st.lastId>>
    ELSE <<zoneName, FreshId({ k[2] : k \in { q \in DOMAIN st.mobs : q[1] = zoneName } })>>

\* the body of the inner loop without the test of the players' distance
spawnOne_anywhere(st, zoneName, tape) ==
    LET id == MobId(st, zoneName, tape)
        spot == tape.spots[(st.draws % Len(tape.spots)) + 1]
        zone == zones[zoneName]
        x == zone.MinX + (spot[1] * (zone.MaxX - zone.MinX)) \div 100
        y == zone.MinY + (spot[2] * (zone.MaxY - zone.MinY)) \div 100
    IN [st EXCEPT !.draws = @ + 1,
                  !.mobs = (id :> NewMob(tape.mobType,
                                         RarityRoll(zoneName, tape.high),
                                         x, y, zoneName, tape.offset)) @@ @,
                  !.spawned = @ + 1,
                  !.lastId = id[2]]

\* the body of the inner loop: draw a point, spawn there if no player is near
spawnOne(st, zoneName, tape) ==
    LET id == MobId(st, zoneName, tape)
        spot == tape.spots[(st.draws % Len(tape.spots)) + 1]
        zone == zones[zoneName]
        x == zone.MinX + (spot[1] * (zone.MaxX - zone.MinX)) \div 100
        y == zone.MinY + (spot[2] * (zone.MaxY - zone.MinY)) \div 100
        safe == \A p \in DOMAIN players :
                   ~InsideSq(x - players[p].X, y - players[p].Y, SpawnExclusion)
    IN IF safe
       THEN [st EXCEPT !.draws = @ + 1,
                       !.mobs = (id :> NewMob(tape.mobType,
                                              RarityRoll(zoneName, tape.high),
                                              x, y, zoneName, tape.offset)) @@ @,
                       !.spawned = @ + 1,
                       !.lastId = id[2]]
       ELSE [st EXCEPT !.draws = @ + 1]

RECURSIVE spawnBatch(_, _, _, _, _)
spawnBatch(st, zoneName, tape, i, count) ==
    IF i >= count THEN st
    ELSE spawnBatch(spawnOne(st, zoneName, tape), zoneName, tape, i + 1, count)

\* the batch size without the cut to the number still needed
BatchSize_uncut(tape, spawned, need) == tape.count

\* count := rand.Intn(3) + 1, cut to need - spawned
BatchSize(tape, spawned, need) ==
    IF spawned + tape.count > need THEN need - spawned ELSE tape.count

\* for spawned < need && attempts < maxAttempts
RECURSIVE spawnAttempts(_, _, _, _)
spawnAttempts(st, zoneName, tape, need) ==
    IF st.spawned < need /\ st.attempts < need * 5
    THEN spawnAttempts(
            spawnBatch([st EXCEPT !.attempts = @ + 1], zoneName, tape, 0,
                       BatchSize(tape, st.spawned, need)),
            zoneName, tape, need)
    ELSE st

\* the body of the loop over the zones; current is the count taken before
\* the loop
spawnZone(st, zoneName, tape, current) ==
    IF current >= maxMobsPerZone
    THEN [st EXCEPT !.stats = (zoneName :> [need |-> 0, attempts |-> 0,
                                            spawned |-> 0]) @@ @]
    ELSE LET need == maxMobsPerZone - current
             done == spawnAttempts([st EXCEPT !.spawned = 0, !.attempts = 0,
                                              !.lastId = 0],
                                   zoneName, tape, need)
         IN [done EXCEPT !.stats = (zoneName :> [need |-> need,
                                                 attempts |-> done.attempts,
                                                 spawned |-> done.spawned]) @@ @]

RECURSIVE spawnZones(_, _, _, _)
spawnZones(st, order, i, tape) ==
    IF i > Len(order) THEN st
    ELSE spawnZones(spawnZone(st, order[i], tape, ZoneCount(mobs, order[i])),
                    order, i + 1, tape)

\* the zones in one range order (the zones do not share ids or counts, so
\* every order gives the same store)
ZoneOrder == <<"common", "uncommon", "rare", "epic", "legendary">>

\* one round of mobSpawnLoop
spawnMobsIfNeeded ==
    \E tape \in SpawnTapes :
       LET st == spawnZones([mobs |-> mobs, spawned |-> 0, attempts |-> 0,
                             draws |-> 0, lastId |-> 0, stats |-> << >>],
                            ZoneOrder, 1, tape)
       IN /\ mobs' = st.mobs
          /\ sent' = << >>
          /\ last' = [NoLast EXCEPT !.op = "spawnMobsIfNeeded", !.spawn = st.stats]
          /\ Lock
          /\ UNCHANGED srvvars
          /\ UNCHANGED <<players, connections, petalDrops, revives, now, petalPc,
                         petalTick, collTick, aiTick, via, nmoves>>

---------------------------------------------------------------------------
(* Connections *)

\* RemovePlayer: close and forget the connection, delete the player;
\* RemovePlayer called by the handler of client `caller`, which then
\* returns; the socket stored under playerID is closed and forgotten
RemovePlayerBy(caller, playerID) ==
    /\ connections' = connections \ {playerID}
    /\ players' = [p \in DOMAIN players \ {playerID} |-> players[p]]
    /\ sent' = << >>
    /\ last' = [NoLast EXCEPT !.op = "RemovePlayer", !.pid = playerID]
    /\ Lock
    /\ handlers' = [c \in DOMAIN handlers |->
                       [handlers[c] EXCEPT
                          !.pc = IF c = caller THEN "closed" ELSE @,
                          !.entry = IF handlers[c].pid = playerID THEN FALSE ELSE @]]
    /\ UNCHANGED <<mu, bcast, writing>>
    /\ UNCHANGED <<mobs, petalDrops, revives, now, petalPc, petalTick, collTick, aiTick,
                   via, nmoves, tasks, locks>>

\* RemovePlayer as the handler of the player's own client calls it
RemovePlayer(playerID) == RemovePlayerBy(playerID, playerID)

---------------------------------------------------------------------------
(* The connection handler (Server.handleWebSocket) and the broadcast task  *)
(* (synchronizeGameState).  A write to a connection takes two steps, its   *)
(* beginning and its return, unless it is made inside a method that holds  *)
(* Game.mu exclusively.                                                    *)

\* the clients that open a connection; the player AddPlayer creates for a
\* client is named after it
Clients == PlayerIds

\* the token of the upgrade request: absent, unknown to the user store, or
\* the id of a stored user
Tokens == {"", "stale", "good"}

\* the ids the user collection holds
Users == {"good"}

\* a user lookup that finds every token
GetUserByID_anyone(token) == TRUE

\* Repository.GetUserByID returns a user and no error
GetUserByID(token) == token \in Users

\* filterByZone
filterByZone(zone) ==
    [ players |-> { p \in DOMAIN players : players[p].CurrentZone = zone },
      mobs    |-> { m \in DOMAIN mobs : mobs[m].Zone = zone } ]

\* the state message broadcastGameState builds for one player
BroadcastState(playerID) ==
    LET zone == players[playerID].CurrentZone
        f == filterByZone(zone)
    IN [ kind |-> "broadcast", zone |-> zone, players |-> f.players, mobs |-> f.mobs,
         drops |-> { d \in DOMAIN petalDrops : petalDrops[d].Zone = zone } ]

\* GetGameState: the initial state message, without loot drops
GetGameState(playerID) ==
    LET zone == players[playerID].CurrentZone
        f == filterByZone(zone)
    IN [ kind |-> "initial", zone |-> zone, players |-> f.players, mobs |-> f.mobs,
         drops |-> {} ]

\* token == "" or the user lookup fails: write the error message and return
\* (the deferred ws.Close closes the socket)
HandlerReject(c) ==
    /\ handlers[c].pc = "upgraded"
    /\ handlers[c].token = "" \/ ~GetUserByID(handlers[c].token)
    /\ handlers' = [handlers EXCEPT ![c].pc = "closed"]
    /\ sent' = << [to |-> c, type |-> "error",
                   message |-> IF handlers[c].token = "" THEN "Authentication required"
                               ELSE "Invalid or expired token"] >>
    /\ last' = [NoLast EXCEPT !.op = "HandlerReject", !.pid = c]
    /\ UNCHANGED <<players, connections, mobs, petalDrops, revives, now, petalPc,
                   petalTick, collTick, aiTick, via, nmoves, tasks, locks, mu, bcast, writing>>

\* playerID := fmt.Sprintf("p_%d", time.Now().UnixNano()): an id no handler
\* was given before (named after the client), or the id another handler was
\* given at this clock reading
PlayerIDs(c) ==
    {c} \cup { handlers[d].pid : d \in { e \in DOMAIN handlers :
                                            /\ e # c
                                            /\ handlers[e].pid # "none"
                                            /\ handlers[e].joined = now } }

\* the client whose socket g.connections holds under playerID
SocketOf(playerID) ==
    CHOOSE c \in DOMAIN handlers : handlers[c].pid = playerID /\ handlers[c].entry

\* the token passed both tests: s.game.AddPlayer(ws, userID, username)
AddPlayer(c) ==
    /\ handlers[c].pc = "upgraded"
    /\ handlers[c].token # ""
    /\ GetUserByID(handlers[c].token)
    /\ Lock
    /\ \E playerID \in PlayerIDs(c) :
          /\ \E s \in findSafeSpawnPosition("common", playerID) :
                players' = (playerID :> NewPlayer(s[1], s[2])) @@ players
          /\ connections' = connections \cup {playerID}
          /\ handlers' = [d \in DOMAIN handlers |->
                IF d = c
                THEN [handlers[d] EXCEPT !.pc = "joined", !.pid = playerID,
                                         !.joined = now, !.entry = TRUE]
                ELSE [handlers[d] EXCEPT
                        !.entry = IF handlers[d].pid = playerID THEN FALSE ELSE @]]
    /\ sent' = << >>
    /\ last' = [NoLast EXCEPT !.op = "AddPlayer", !.pid = c]
    /\ UNCHANGED <<mobs, petalDrops, revives, now, petalPc, petalTick, collTick, aiTick,
                   via, nmoves, tasks, locks, mu, bcast, writing>>

\* defer s.game.RemovePlayer(player.ID); initialState :=
\* s.game.GetGameState(player.ID): player.ID is read without the lock, the
\* state is copied out under RLock
HandlerGetState(c) ==
    /\ handlers[c].pc = "joined"
    /\ handlers' = [handlers EXCEPT ![c].pc = "state",
                                    ![c].state = IF handlers[c].pid \in DOMAIN players
                                                 THEN "initial" ELSE "nil"]
    /\ sent' = << >>
    /\ last' = [NoLast EXCEPT !.op = "GetGameState", !.pid = c,
                              !.snap = IF handlers[c].pid \in DOMAIN players
                                       THEN GetGameState(handlers[c].pid)
                                       ELSE NoSnap,
                              !.unlocked = {"ID"}]
    /\ UNCHANGED <<players, connections, mobs, petalDrops, revives, now, petalPc,
                   petalTick, collTick, aiTick, via, nmoves, tasks, locks, mu, bcast, writing>>

\* ws.WriteJSON(initialState) is entered
HandlerWriteInitial(c) ==
    /\ handlers[c].pc = "state"
    /\ handlers' = [handlers EXCEPT ![c].pc = "initial"]
    /\ writing' = [writing EXCEPT ![c] = @ \cup {"handler"}]
    /\ sent' = << >>
    /\ last' = [NoLast EXCEPT !.op = "WriteInitial", !.pid = c]
    /\ UNCHANGED <<players, connections, mobs, petalDrops, revives, now, petalPc,
                   petalTick, collTick, aiTick, via, nmoves, tasks, locks, mu, bcast>>

\* ws.WriteJSON(initialState) returns: on an error the handler returns
HandlerInitialDone(c) ==
    \E ok \in BOOLEAN :
       /\ handlers[c].pc = "initial"
       /\ handlers' = [handlers EXCEPT ![c].pc = IF ok THEN "loop" ELSE "exit",
                                       ![c].err = IF ok THEN @ ELSE "WriteJSON"]
       /\ writing' = [writing EXCEPT ![c] = @ \ {"handler"}]
       /\ sent' = IF ok THEN << [to |-> c, type |-> "state"] >> ELSE << >>
       /\ last' = [NoLast EXCEPT !.op = "InitialDone", !.pid = c, !.failed = ~ok]
       /\ UNCHANGED <<players, connections, mobs, petalDrops, revives, now, petalPc,
                      petalTick, collTick, aiTick, via, nmoves, tasks, locks, mu, bcast>>

\* what the handler can read from its socket: a frame that is no JSON
\* document, or a document whose type field holds a number (neither decodes
\* into a GameMessage); a move whose data is no object; a move whose dx is
\* a string; a message of an unknown type; a ping; the close of the peer
Frames ==
    { [shape |-> "garbage"], [shape |-> "typeIsNumber"], [shape |-> "moveNoObject"],
      [shape |-> "moveDxString"], [shape |-> "unknownType"], [shape |-> "ping"],
      [shape |-> "closed"] }

\* ws.ReadJSON(&msg) returns an error
ReadFails(frame) == frame.shape \in {"garbage", "typeIsNumber", "closed"}

\* ReadJSON fails (the frame does not decode, or the peer has closed): the
\* handler prints player.ID and leaves its loop
HandlerReadError(c) ==
    \E frame \in Frames :
       /\ handlers[c].pc = "loop"
       /\ ReadFails(frame)
       /\ handlers' = [handlers EXCEPT ![c].pc = "exit", ![c].err = "ReadJSON"]
       /\ sent' = << >>
       /\ last' = [NoLast EXCEPT !.op = "ReadError", !.pid = c, !.unlocked = {"ID"},
                                 !.frame = frame.shape]
       /\ UNCHANGED <<players, connections, mobs, petalDrops, revives, now, petalPc,
                      petalTick, collTick, aiTick, via, nmoves, tasks, locks, mu, bcast, writing>>

\* a message that decodes but matches no case of the switch, or a move
\* whose Data is not a map: the loop goes on to the next message
HandlerSkip(c) ==
    \E frame \in Frames :
       /\ handlers[c].pc = "loop"
       /\ frame.shape \in {"moveNoObject", "unknownType"}
       /\ sent' = << >>
       /\ last' = [NoLast EXCEPT !.op = "Skip", !.pid = c, !.frame = frame.shape]
       /\ UNCHANGED <<players, connections, mobs, petalDrops, revives, now, petalPc,
                      petalTick, collTick, aiTick, via, nmoves, srvvars>>

\* a move whose dx is not a number: dx, _ := moveData["dx"].(float64) gives
\* 0 and MovePlayer is called with (0, dy)
HandlerMoveDxString(c, dy, limit) ==
    /\ handlers[c].pc = "loop"
    /\ [shape |-> "moveDxString"] \in Frames
    /\ MovePlayer(handlers[c].pid, 0, dy, limit)

\* case "ping": ws.WriteJSON(pong) is entered
HandlerPing(c) ==
    /\ handlers[c].pc = "loop"
    /\ [shape |-> "ping"] \in Frames
    /\ handlers' = [handlers EXCEPT ![c].pc = "pong"]
    /\ writing' = [writing EXCEPT ![c] = @ \cup {"handler"}]
    /\ sent' = << >>
    /\ last' = [NoLast EXCEPT !.op = "Ping", !.pid = c]
    /\ UNCHANGED <<players, connections, mobs, petalDrops, revives, now, petalPc,
                   petalTick, collTick, aiTick, via, nmoves, tasks, locks, mu, bcast>>

\* ws.WriteJSON(pong) returns (its error is not looked at)
HandlerPongDone(c) ==
    /\ handlers[c].pc = "pong"
    /\ handlers' = [handlers EXCEPT ![c].pc = "loop"]
    /\ writing' = [writing EXCEPT ![c] = @ \ {"handler"}]
    /\ sent' = << [to |-> c, type |-> "pong"] >>
    /\ last' = [NoLast EXCEPT !.op = "PongDone", !.pid = c]
    /\ UNCHANGED <<players, connections, mobs, petalDrops, revives, now, petalPc,
                   petalTick, collTick, aiTick, via, nmoves, tasks, locks, mu, bcast>>

\* the handler returns: the deferred RemovePlayer runs
HandlerExit(c) ==
    /\ handlers[c].pc = "exit"
    /\ RemovePlayerBy(c, handlers[c].pid)

\* broadcastGameState takes the lock shared and starts ranging over
\* g.connections
BroadcastBegin ==
    \E order \in Orders(connections) :
       /\ bcast.pc = "idle"
       /\ mu' = mu \cup {"broadcast"}
       /\ bcast' = [pc |-> "next", order |-> order, i |-> 1, failed |-> {},
                    served |-> {}]
       /\ sent' = << >>
       /\ last' = [NoLast EXCEPT !.op = "BroadcastBegin"]
       /\ UNCHANGED <<players, connections, mobs, petalDrops, revives, now, petalPc,
                      petalTick, collTick, aiTick, via, nmoves, tasks, locks, handlers, writing>>

\* one iteration of the range loop up to the entry of conn.WriteJSON(state)
BroadcastWrite ==
    /\ bcast.pc = "next"
    /\ bcast.i <= Len(bcast.order)
    /\ LET c == bcast.order[bcast.i]
       IN IF c \notin DOMAIN players
          THEN /\ bcast' = [bcast EXCEPT !.i = @ + 1]
               /\ last' = [NoLast EXCEPT !.op = "BroadcastSkip", !.pid = c]
               /\ UNCHANGED writing
          ELSE /\ bcast' = [bcast EXCEPT !.pc = "write"]
               /\ writing' = [writing EXCEPT ![SocketOf(c)] = @ \cup {"broadcast"}]
               /\ last' = [NoLast EXCEPT !.op = "BroadcastWrite", !.pid = c,
                                         !.snap = BroadcastState(c)]
    /\ sent' = << >>
    /\ UNCHANGED <<players, connections, mobs, petalDrops, revives, now, petalPc,
                   petalTick, collTick, aiTick, via, nmoves, tasks, locks, mu, handlers>>

\* conn.WriteJSON(state) returns; _ = discards its error
BroadcastWriteDone ==
    \E ok \in BOOLEAN :
       LET c == bcast.order[bcast.i]
       IN /\ bcast.pc = "write"
          /\ bcast' = [bcast EXCEPT !.pc = "next", !.i = @ + 1,
                                    !.failed = IF ok THEN @ ELSE @ \cup {c},
                                    !.served = IF ok THEN @ \cup {c} ELSE @]
          /\ writing' = [writing EXCEPT ![SocketOf(c)] = @ \ {"broadcast"}]
          /\ sent' = IF ok THEN << [to |-> c, type |-> "state"] >> ELSE << >>
          /\ last' = [NoLast EXCEPT !.op = "BroadcastWriteDone", !.pid = c,
                                    !.failed = ~ok]
          /\ UNCHANGED <<players, connections, mobs, petalDrops, revives, now,
                         petalPc, petalTick, collTick, aiTick, via, nmoves, tasks, locks, mu, handlers>>

\* broadcastGameState without its deferred RUnlock
BroadcastEnd_held ==
    /\ bcast.pc = "next"
    /\ bcast.i > Len(bcast.order)
    /\ mu' = mu
    /\ bcast' = Resting
    /\ sent' = << >>
    /\ last' = [NoLast EXCEPT !.op = "BroadcastEnd"]
    /\ UNCHANGED <<players, connections, mobs, petalDrops, revives, now, petalPc,
                   petalTick, collTick, aiTick, via, nmoves, tasks, locks, handlers, writing>>

\* the range loop is over: the deferred RUnlock runs
BroadcastEnd ==
    /\ bcast.pc = "next"
    /\ bcast.i > Len(bcast.order)
    /\ mu' = mu \ {"broadcast"}
    /\ bcast' = Resting
    /\ sent' = << >>
    /\ last' = [NoLast EXCEPT !.op = "BroadcastEnd"]
    /\ UNCHANGED <<players, connections, mobs, petalDrops, revives, now, petalPc,
                   petalTick, collTick, aiTick, via, nmoves, tasks, locks, handlers, writing>>

---------------------------------------------------------------------------
(* The first server (package main): players and connections are guarded by *)
(* two locks, playersMu and connectionsMu; a handler adds its player and   *)
(* its connection, reads until the read fails and removes both; the        *)
(* synchronizing task sends the state to every connection                  *)

\* a lock can be taken exclusively
Free(l) == locks[l] = {}

\* a lock can be taken shared
FreeToRead(l) == \A h \in locks[l] : h[2] = "R"

\* a handler whose socket has been upgraded
Upgraded(c) == [pc |-> "upgraded", token |-> "", state |-> "none", pid |-> c,
                joined |-> 0 - 1, entry |-> FALSE, err |-> "none"]

\* where rand.Float64() * g.worldSize puts a new player
MainSpots == {<<1000, 1000>>, <<5000, 2500>>}

MainKeeps == <<mobs, petalDrops, revives, now, petalPc, petalTick, collTick, aiTick,
               via, nmoves, mu, writing, tasks>>

\* AddPlayer up to g.connectionsMu.Lock(): playersMu is taken and the player
\* stored
mainAddPlayer(c) ==
    /\ handlers[c].pc = "upgraded"
    /\ Free("playersMu")
    /\ locks' = [locks EXCEPT !.playersMu = {<<c, "W">>}]
    /\ \E s \in MainSpots : players' = (c :> [X |-> s[1], Y |-> s[2]]) @@ players
    /\ handlers' = [handlers EXCEPT ![c].pc = "adding"]
    /\ sent' = << >>
    /\ last' = [NoLast EXCEPT !.op = "AddPlayer", !.pid = c]
    /\ UNCHANGED <<connections, bcast>>
    /\ UNCHANGED MainKeeps

\* the rest of AddPlayer: the connection is stored under connectionsMu and
\* both locks are released; a range loop in progress over the table may or
\* may not produce the new entry
mainAddConnection(c) ==
    /\ handlers[c].pc = "adding"
    /\ Free("connectionsMu")
    /\ connections' = connections \cup {c}
    /\ locks' = [locks EXCEPT !.playersMu = {}]
    /\ handlers' = [handlers EXCEPT ![c].pc = "loop", ![c].entry = TRUE]
    /\ \E seen \in BOOLEAN :
          bcast' = IF bcast.pc # "idle" /\ seen
                   THEN [bcast EXCEPT !.order = Append(@, c)] ELSE bcast
    /\ sent' = << >>
    /\ last' = [NoLast EXCEPT !.op = "AddConnection", !.pid = c]
    /\ UNCHANGED players
    /\ UNCHANGED MainKeeps

\* ws.ReadJSON fails: the handler leaves its loop
mainReadError(c) ==
    /\ handlers[c].pc = "loop"
    /\ handlers' = [handlers EXCEPT ![c].pc = "exit", ![c].err = "ReadJSON"]
    /\ sent' = << >>
    /\ last' = [NoLast EXCEPT !.op = "ReadError", !.pid = c]
    /\ UNCHANGED <<players, connections, bcast, locks>>
    /\ UNCHANGED MainKeeps

\* the deferred RemovePlayer up to g.removeConnection: playersMu is taken
\* and the player deleted
mainRemovePlayer(c) ==
    /\ handlers[c].pc = "exit"
    /\ Free("playersMu")
    /\ locks' = [locks EXCEPT !.playersMu = {<<c, "W">>}]
    /\ players' = [p \in DOMAIN players \ {c} |-> players[p]]
    /\ handlers' = [handlers EXCEPT ![c].pc = "removing"]
    /\ sent' = << >>
    /\ last' = [NoLast EXCEPT !.op = "RemovePlayer", !.pid = c]
    /\ UNCHANGED <<connections, bcast>>
    /\ UNCHANGED MainKeeps

\* removeConnection called by RemovePlayer, and the return of RemovePlayer
mainRemoveConnection(c) ==
    /\ handlers[c].pc = "removing"
    /\ Free("connectionsMu")
    /\ connections' = connections \ {c}
    /\ locks' = [locks EXCEPT !.playersMu = {}]
    /\ handlers' = [handlers EXCEPT ![c].pc = "closed", ![c].entry = FALSE]
    /\ sent' = << >>
    /\ last' = [NoLast EXCEPT !.op = "removeConnection", !.pid = c]
    /\ UNCHANGED <<players, bcast>>
    /\ UNCHANGED MainKeeps

\* broadcastGameState: g.connectionsMu.RLock(); with an empty table it
\* returns at once
mainBroadcastRLock ==
    /\ bcast.pc = "idle"
    /\ FreeToRead("connectionsMu")
    /\ IF connections = {}
       THEN UNCHANGED <<bcast, locks>>
       ELSE /\ locks' = [locks EXCEPT !.connectionsMu = @ \cup {<<"broadcast", "R">>}]
            /\ bcast' = [Resting EXCEPT !.pc = "copy"]
    /\ sent' = << >>
    /\ last' = [NoLast EXCEPT !.op = "BroadcastBegin"]
    /\ UNCHANGED <<players, connections, handlers>>
    /\ UNCHANGED MainKeeps

\* the players are copied under playersMu.RLock, and the range loop over
\* g.connections starts
mainBroadcastCopy ==
    \E order \in Orders(connections) :
       /\ bcast.pc = "copy"
       /\ FreeToRead("playersMu")
       /\ bcast' = [bcast EXCEPT !.pc = "next", !.order = order, !.i = 1]
       /\ sent' = << >>
       /\ last' = [NoLast EXCEPT !.op = "BroadcastCopy"]
       /\ UNCHANGED <<players, connections, handlers, locks>>
       /\ UNCHANGED MainKeeps

\* one iteration of the range loop: an entry deleted before the loop
\* reached it is not produced; conn.WriteJSON(state) succeeds or fails, and
\* after a failure the task gives up its hold of connectionsMu
mainBroadcastWrite ==
    \E ok \in BOOLEAN :
       LET c == bcast.order[bcast.i]
       IN /\ bcast.pc = "next"
          /\ bcast.i <= Len(bcast.order)
          /\ IF c \notin connections
             THEN /\ bcast' = [bcast EXCEPT !.i = @ + 1]
                  /\ sent' = << >>
                  /\ last' = [NoLast EXCEPT !.op = "BroadcastSkip", !.pid = c]
                  /\ UNCHANGED locks
             ELSE IF ok
             THEN /\ bcast' = [bcast EXCEPT !.i = @ + 1, !.served = @ \cup {c}]
                  /\ sent' = << [to |-> c, type |-> "state"] >>
                  /\ last' = [NoLast EXCEPT !.op = "BroadcastWriteDone", !.pid = c]
                  /\ UNCHANGED locks
             ELSE /\ bcast' = [bcast EXCEPT !.pc = "unlocked", !.failed = @ \cup {c}]
                  /\ locks' = [locks EXCEPT !.connectionsMu = @ \ {<<"broadcast", "R">>}]
                  /\ sent' = << >>
                  /\ last' = [NoLast EXCEPT !.op = "BroadcastRUnlock", !.pid = c,
                                            !.failed = TRUE]
          /\ UNCHANGED <<players, connections, handlers>>
          /\ UNCHANGED MainKeeps

\* g.removeConnection(playerID) called from inside the range loop
mainBroadcastRemove ==
    LET c == bcast.order[bcast.i]
    IN /\ bcast.pc = "unlocked"
       /\ Free("connectionsMu")
       /\ connections' = connections \ {c}
       /\ handlers' = [handlers EXCEPT ![c].entry = FALSE]
       /\ bcast' = [bcast EXCEPT !.pc = "removed"]
       /\ sent' = << >>
       /\ last' = [NoLast EXCEPT !.op = "removeConnection", !.pid = c]
       /\ UNCHANGED <<players, locks>>
       /\ UNCHANGED MainKeeps

\* g.connectionsMu.RLock() after removeConnection: the loop goes on
mainBroadcastRLockAgain ==
    /\ bcast.pc = "removed"
    /\ FreeToRead("connectionsMu")
    /\ locks' = [locks EXCEPT !.connectionsMu = @ \cup {<<"broadcast", "R">>}]
    /\ bcast' = [bcast EXCEPT !.pc = "next", !.i = @ + 1]
    /\ sent' = << >>
    /\ last' = [NoLast EXCEPT !.op = "BroadcastRLock"]
    /\ UNCHANGED <<players, connections, handlers>>
    /\ UNCHANGED MainKeeps

\* the range loop is over: the deferred RUnlock runs
mainBroadcastReturn ==
    /\ bcast.pc = "next"
    /\ bcast.i > Len(bcast.order)
    /\ locks' = [locks EXCEPT !.connectionsMu = @ \ {<<"broadcast", "R">>}]
    /\ bcast' = Resting
    /\ sent' = << >>
    /\ last' = [NoLast EXCEPT !.op = "BroadcastEnd"]
    /\ UNCHANGED <<players, connections, handlers>>
    /\ UNCHANGED MainKeeps

---------------------------------------------------------------------------
(* Movement world: two connected players, no mobs spawned yet *)

\* intent vectors sent by clients
Intents == {<<1, 0>>, <<-1, 0>>, <<0, 0>>, <<3, 4>>}

\* positions of p1 and p2 in the common zone: both were spawned at least
\* 3 radii apart (findSafeSpawnPosition) and p2 has walked towards p1 since
StartPairs ==
    { <<<<0, 15000>>, <<375, 15000>>>>,
      <<<<56975, 15000>>, <<30000, 15000>>>>,
      <<<<56980, 15020>>, <<57400, 15000>>>> }

TimeStepsMove == {99, 100}

InitMove ==
    /\ now = 0
    /\ \E sp \in StartPairs :
         players = [p \in PlayerIds |->
                      IF p = "p1"
                      THEN [NewPlayer(sp[1][1], sp[1][2]) EXCEPT !.LastHitTime = 0]
                      ELSE [NewPlayer(sp[2][1], sp[2][2]) EXCEPT !.LastHitTime = 0]]
    /\ connections = PlayerIds
    /\ mobs = << >>
    /\ petalDrops = << >>
    /\ revives = << >>
    /\ petalPc = "update"
    /\ petalTick = FALSE
    /\ collTick = FALSE
    /\ aiTick = FALSE
    /\ sent = << >>
    /\ last = NoLast
    /\ via = [p \in PlayerIds |-> NoVia]
    /\ nmoves = 0
    /\ mu = {}
    /\ handlers = [c \in PlayerIds |-> Serving(c)]
    /\ bcast = Resting
    /\ writing = [c \in PlayerIds |-> {}]
    /\ locks = Unlocked
    /\ tasks = << >>

NextMove ==
    \/ \E p \in PlayerIds, v \in Intents : MovePlayer(p, v[1], v[2], MaxMoves)
    \/ \E d \in TimeStepsMove : Advance(d, MaxTime)

SpecMove == InitMove /\ [][NextMove]_vars

---------------------------------------------------------------------------
(* Intent world: the players of the movement world, whose clients send     *)
(* intent vectors of any length                                            *)

\* mantissas of the intent vectors: axis, diagonal and multiples of them
IntentsScaled ==
    {<<1, 0>>, <<1, 1>>, <<10, 0>>, <<3, 4>>, <<27, 36>>, <<-20, 20>>, <<0, -7>>}

\* decimal exponents of the intent vectors
Exponents == {0 - 200, 0, 200}

NextIntent ==
    \E p \in PlayerIds, v \in IntentsScaled, exp10 \in Exponents :
       MovePlayerScaled(p, v[1], v[2], exp10, MaxWorldMoves)

SpecIntent == InitMove /\ [][NextIntent]_vars

---------------------------------------------------------------------------
(* Edge world: p1 has walked to the right edge of zone common, p2 has      *)
(* walked up to it from the left until the avoidance held it back          *)

InitEdge ==
    /\ now = 0
    /\ players = [p \in PlayerIds |->
                    IF p = "p1"
                    THEN [NewPlayer(60000, 5000) EXCEPT !.LastHitTime = 0]
                    ELSE [NewPlayer(59667, 5000) EXCEPT !.LastHitTime = 0]]
    /\ connections = PlayerIds
    /\ mobs = << >>
    /\ petalDrops = << >>
    /\ revives = << >>
    /\ petalPc = "update"
    /\ petalTick = FALSE
    /\ collTick = FALSE
    /\ aiTick = FALSE
    /\ sent = << >>
    /\ last = NoLast
    /\ via = [p \in PlayerIds |-> NoVia]
    /\ nmoves = 0
    /\ mu = {}
    /\ handlers = [c \in PlayerIds |-> Serving(c)]
    /\ bcast = Resting
    /\ writing = [c \in PlayerIds |-> {}]
    /\ locks = Unlocked
    /\ tasks = << >>

NextEdge == \E p \in PlayerIds, v \in Intents : MovePlayer(p, v[1], v[2], MaxMoves)

SpecEdge == InitEdge /\ [][NextEdge]_vars

---------------------------------------------------------------------------
(* Combat world: a running world observed from clock value 0.  Players    *)
(* have walked, fought and collected petals before; mobs were spawned and *)
(* have approached the players.                                           *)

\* a petal picked up earlier, on its orbit at the given angle
OrbitingPetal(petalType, ownerID, angle, px, py) ==
    [NewPetal(petalType, ownerID) EXCEPT
        !.Angle = angle,
        !.X = px + RDiv(PetalConfigs[petalType].Radius * Cos(angle), 10000),
        !.Y = py + RDiv(PetalConfigs[petalType].Radius * Sin(angle), 10000),
        !.LastHeal = 0 - 20, !.LastAttack = 0 - 5]

\* a mob spawned earlier that has lost `lost` health
OldMob(mobType, rarity, x, y, zone, randomOffset, lost) ==
    [NewMob(mobType, rarity, x, y, zone, randomOffset) EXCEPT
        !.Health = @ - lost, !.LastHitTime = 0 - 1]

\* two players 40 units apart in the middle of zone common, a wounded goblin
\* between them, a wounded wolf at (30000, y) on the orbit of p1's goblin petal
LootArena(y) ==
    [ players |->
        [p \in PlayerIds |->
           IF p = "p1"
           THEN [NewPlayer(30000, 15000) EXCEPT
                   !.LastHitTime = 0 - 1,
                   !.Petals = (1 :> OrbitingPetal("goblin", "p1", 1371, 30000, 15000))]
           ELSE [NewPlayer(30400, 15000) EXCEPT !.LastHitTime = 0 - 1]],
      mobs |->
        ( "m1" :> OldMob("goblin", "common", 30200, 15000, "common", 0, 25)
       @@ "m2" :> OldMob("wolf", "common", 30000, y, "common", 0, 25) ),
      revives |-> << >> ]

\* p1, wounded, one step from portal P1 with a healing petal and a destroyed
\* petal waiting for its revive; a wounded orc next to it, a rare orc behind
\* portal P2
PortalArena ==
    [ players |->
        [p \in PlayerIds |->
           IF p = "p1"
           THEN [NewPlayer(56975, 15000) EXCEPT
                   !.Health = 15, !.LastHitTime = 0 - 1,
                   !.Petals = ( 1 :> OrbitingPetal("wolf", "p1", 3000, 56975, 15000)
                             @@ 2 :> [OrbitingPetal("orc", "p1", 500, 56975, 15000)
                                        EXCEPT !.Health = 0, !.IsActive = FALSE] )]
           ELSE [NewPlayer(12345, 6789) EXCEPT !.LastHitTime = 0 - 1]],
      mobs |->
        ( "m1" :> OldMob("orc", "common", 57275, 15000, "common", 0, 55)
       @@ "m3" :> OldMob("orc", "rare", 72300, 15000, "uncommon", 0, 0) ),
      revives |-> << [owner |-> "p1", petal |-> 2, at |-> 1] >> ]

InitArena(a) ==
    /\ now = 0
    /\ players = a.players
    /\ mobs = a.mobs
    /\ revives = a.revives
    /\ connections = PlayerIds
    /\ petalDrops = << >>
    /\ petalPc = "update"
    /\ petalTick = TRUE
    /\ collTick = TRUE
    /\ aiTick = TRUE
    /\ sent = << >>
    /\ last = NoLast
    /\ via = [p \in PlayerIds |-> NoVia]
    /\ nmoves = 0
    /\ mu = {}
    /\ handlers = [c \in PlayerIds |-> Serving(c)]
    /\ bcast = Resting
    /\ writing = [c \in PlayerIds |-> {}]
    /\ locks = Unlocked
    /\ tasks = << >>

\* the clock jumps to a later one of the clock readings in T
AdvanceTo(T) == \E t \in T : t > now /\ Advance(t - now, t)

---------------------------------------------------------------------------
(* Loot world: kills, drops, pickup and expiry *)

\* where the wolf stands: 40 or 55 units from p1
WolfSpots == {15400, 15550}

\* clock readings at which the tasks run: two consecutive ticks, the last
\* moment of a drop created at 0 and the first moment after its lifetime
InstantsLoot == {0, 1, 300, 301}

InitLoot == \E y \in WolfSpots : InitArena(LootArena(y))

NextLoot ==
    \/ checkCollisions
    \/ updatePetals
    \/ checkPetalDrops
    \/ checkPetalCollisions
    \/ checkPetalHealing
    \/ AdvanceTo(InstantsLoot)

SpecLoot == InitLoot /\ [][NextLoot]_vars

---------------------------------------------------------------------------
(* Death world: death, movement of the dead, revive timers and respawn *)

IntentsWorld == {<<1, 0>>}

\* the players whose clients send commands in the death world
Movers == {"p1"}

InstantsDeath == {0, 1}

InitDeath == InitArena(PortalArena)

NextDeath ==
    \/ \E p \in Movers, v \in IntentsWorld : MovePlayer(p, v[1], v[2], MaxWorldMoves)
    \/ \E p \in Movers : RespawnPlayer(p, MaxWorldMoves)
    \/ checkCollisions
    \/ updatePetals
    \/ checkPetalDrops
    \/ checkPetalCollisions
    \/ checkPetalHealing
    \/ \E k \in 1..Len(revives) : ReviveFire(k)
    \/ AdvanceTo(InstantsDeath)

SpecDeath == InitDeath /\ [][NextDeath]_vars

---------------------------------------------------------------------------
(* Revive world: a petal is destroyed, its owner stays, dies or leaves *)

\* p1, with 8 or 100 health left, touched by a goblin; its wounded orc petal
\* orbits into an orc that stands out of p1's own reach
ReviveArena(health) ==
    [ players |->
        [p \in PlayerIds |->
           IF p = "p1"
           THEN [NewPlayer(30000, 15000) EXCEPT
                   !.Health = health, !.LastHitTime = 0 - 1,
                   !.Petals = (1 :> [OrbitingPetal("orc", "p1", 0, 30000, 15000)
                                       EXCEPT !.Health = 5])]
           ELSE [NewPlayer(12345, 6789) EXCEPT !.LastHitTime = 0 - 1]],
      mobs |->
        ( "m1" :> OldMob("orc", "common", 30900, 15000, "common", 0, 0)
       @@ "m2" :> OldMob("goblin", "common", 30000, 14800, "common", 0, 0) ),
      revives |-> << >> ]

\* health p1 has left at the start
WoundedOrNot == {8, 100}

\* two consecutive ticks and the moment the 2 s sleep of a revive goroutine
\* started at 0 is over
InstantsRevive == {0, 1, 20}

InitRevive == \E h \in WoundedOrNot : InitArena(ReviveArena(h))

NextRevive ==
    \/ RemovePlayer("p1")
    \/ checkCollisions
    \/ updatePetals
    \/ checkPetalDrops
    \/ checkPetalCollisions
    \/ checkPetalHealing
    \/ \E k \in 1..Len(revives) : ReviveFire(k)
    \/ AdvanceTo(InstantsRevive)

\* the clock advances, and a revive goroutine whose sleep is over gets the
\* lock (sync.Mutex hands the lock to a waiter within a bounded time)
SpecRevive ==
    /\ InitRevive
    /\ [][NextRevive]_vars
    /\ WF_vars(AdvanceTo(InstantsRevive))
    /\ WF_vars(\E k \in 1..Len(revives) : ReviveFire(k))

---------------------------------------------------------------------------
(* Healing world: players with healing petals next to an orc *)

\* p1 with the given health and three wolf petals: one whose heal interval
\* is over, one that healed a second ago and a destroyed one; p2 unhurt
\* with a wolf petal; an orc that overlaps p1
HealArena(health) ==
    [ players |->
        [p \in PlayerIds |->
           IF p = "p1"
           THEN [NewPlayer(30000, 15000) EXCEPT
                   !.Health = health, !.LastHitTime = 0 - 1,
                   !.Petals = ( 1 :> OrbitingPetal("wolf", "p1", 0, 30000, 15000)
                             @@ 2 :> [OrbitingPetal("wolf", "p1", 2094, 30000, 15000)
                                        EXCEPT !.LastHeal = 0 - 10]
                             @@ 3 :> [OrbitingPetal("wolf", "p1", 4189, 30000, 15000)
                                        EXCEPT !.Health = 0, !.IsActive = FALSE] )]
           ELSE [NewPlayer(12345, 6789) EXCEPT
                   !.LastHitTime = 0 - 1,
                   !.Petals = (1 :> OrbitingPetal("wolf", "p2", 0, 12345, 6789))]],
      mobs |-> ( "m1" :> OldMob("orc", "common", 30000, 15300, "common", 0, 0) ),
      revives |-> << >> ]

\* health p1 has at the start
HealthLevels == {92, 97, 100}

\* clock readings: the start, one and two seconds later
InstantsHeal == {0, 10, 20}

InitHeal == \E h \in HealthLevels : InitArena(HealArena(h))

NextHeal ==
    \/ checkCollisions
    \/ updatePetals
    \/ checkPetalDrops
    \/ checkPetalCollisions
    \/ checkPetalHealing
    \/ AdvanceTo(InstantsHeal)

SpecHeal == InitHeal /\ [][NextHeal]_vars

---------------------------------------------------------------------------
(* Spawn world: the spawn task refilling the zones while a player walks *)

\* populations the store can hold when a spawn cycle starts: the empty store
\* of a new game, and zones that have lost a few mobs to the players
SpawnProfiles ==
    { [common |-> 30, uncommon |-> 40, rare |-> 40, epic |-> 40, legendary |-> 28],
      [common |-> 39, uncommon |-> 40, rare |-> 38, epic |-> 40, legendary |-> 37],
      [common |-> 38, uncommon |-> 39, rare |-> 40, epic |-> 36, legendary |-> 40] }

\* p1 stands 199 units from the point (6000, 6000) of zone common, p2
\* exactly 200 units from the point (45000, 27000)
SpawnArena(profile) ==
    [ players |->
        [p \in PlayerIds |->
           IF p = "p1" THEN [NewPlayer(7990, 6000) EXCEPT !.LastHitTime = 0 - 1]
           ELSE [NewPlayer(45000, 25000) EXCEPT !.LastHitTime = 0 - 1]],
      mobs |->
        [ k \in { q \in ZoneNames \X (1..maxMobsPerZone) : q[2] <= profile[q[1]] } |->
            OldMob("wolf", "common", zones[k[1]].MinX + 30000, 20000, k[1], 0, 0) ],
      revives |-> << >> ]

InitSpawn == \E profile \in SpawnProfiles : InitArena(SpawnArena(profile))

NextSpawn ==
    \/ spawnMobsIfNeeded
    \/ \E p \in Movers, v \in IntentsWorld : MovePlayer(p, v[1], v[2], MaxWorldMoves)
    \/ RemovePlayer("p1")

SpecSpawn == InitSpawn /\ [][NextSpawn]_vars

---------------------------------------------------------------------------
(* Server world: clients connect, are admitted or turned away, send frames *)
(* and leave, while the broadcast task runs                                *)

\* a wolf in zone common and an orc in zone uncommon, away from the players
ServerMobs ==
    ( "m1" :> OldMob("wolf", "common", 40000, 25000, "common", 0, 0)
   @@ "m3" :> OldMob("orc", "rare", 100000, 15000, "uncommon", 0, 0) )

InitServer ==
    /\ now = 0
    /\ players = << >>
    /\ connections = {}
    /\ mobs = ServerMobs
    /\ petalDrops = << >>
    /\ revives = << >>
    /\ petalPc = "update"
    /\ petalTick = FALSE
    /\ collTick = FALSE
    /\ aiTick = FALSE
    /\ sent = << >>
    /\ last = NoLast
    /\ via = [p \in PlayerIds |-> NoVia]
    /\ nmoves = 0
    /\ mu = {}
    /\ handlers \in [Clients -> [pc : {"upgraded"}, token : Tokens, state : {"none"},
                                  pid : {"none"}, joined : {0 - 1}, entry : {FALSE},
                                  err : {"none"}]]
    /\ bcast = Resting
    /\ writing = [c \in Clients |-> {}]
    /\ locks = Unlocked
    /\ tasks = << >>

NextServer ==
    \/ \E c \in Clients : HandlerReject(c)
    \/ \E c \in Clients : AddPlayer(c)
    \/ \E c \in Clients : HandlerGetState(c)
    \/ \E c \in Clients : HandlerWriteInitial(c)
    \/ \E c \in Clients : HandlerInitialDone(c)
    \/ \E c \in Clients : HandlerReadError(c)
    \/ \E c \in Clients : HandlerSkip(c)
    \/ \E c \in Movers, v \in IntentsWorld :
          handlers[c].pc = "loop"
          /\ MovePlayer(handlers[c].pid, v[1], v[2], MaxWorldMoves)
    \/ \E c \in Movers : HandlerMoveDxString(c, 1, MaxWorldMoves)
    \/ \E c \in Clients : HandlerPing(c)
    \/ \E c \in Clients : HandlerPongDone(c)
    \/ \E c \in Clients : HandlerExit(c)
    \/ BroadcastBegin
    \/ BroadcastWrite
    \/ BroadcastWriteDone
    \/ BroadcastEnd

SpecServer == InitServer /\ [][NextServer]_vars

---------------------------------------------------------------------------
(* First-server world: two clients come and go while the synchronizing     *)
(* task broadcasts                                                         *)

InitMain ==
    /\ now = 0
    /\ players = << >>
    /\ connections = {}
    /\ mobs = << >>
    /\ petalDrops = << >>
    /\ revives = << >>
    /\ petalPc = "update"
    /\ petalTick = FALSE
    /\ collTick = FALSE
    /\ aiTick = FALSE
    /\ sent = << >>
    /\ last = NoLast
    /\ via = [p \in PlayerIds |-> NoVia]
    /\ nmoves = 0
    /\ mu = {}
    /\ handlers = [c \in Clients |-> Upgraded(c)]
    /\ bcast = Resting
    /\ writing = [c \in Clients |-> {}]
    /\ locks = Unlocked
    /\ tasks = << >>

NextMain ==
    \/ \E c \in Clients : mainAddPlayer(c)
    \/ \E c \in Clients : mainAddConnection(c)
    \/ \E c \in Clients : mainReadError(c)
    \/ \E c \in Clients : mainRemovePlayer(c)
    \/ \E c \in Clients : mainRemoveConnection(c)
    \/ mainBroadcastRLock
    \/ mainBroadcastCopy
    \/ mainBroadcastWrite
    \/ mainBroadcastRemove
    \/ mainBroadcastRLockAgain
    \/ mainBroadcastReturn

SpecMain == InitMain /\ [][NextMain]_vars

---------------------------------------------------------------------------
(* Snapshot world: the broadcast task beside the fight of the loot world *)

\* clock readings: the tick of the kill and the first moment after the
\* lifetime of a drop created then
InstantsSnapshot == {0, 301}

InitSnapshot == InitArena(LootArena(15400))

NextSnapshot ==
    \/ checkCollisions
    \/ updatePetals
    \/ checkPetalDrops
    \/ checkPetalCollisions
    \/ checkPetalHealing
    \/ AdvanceTo(InstantsSnapshot)
    \/ BroadcastBegin
    \/ BroadcastWrite
    \/ BroadcastWriteDone
    \/ BroadcastEnd

SpecSnapshot == InitSnapshot /\ [][NextSnapshot]_vars

---------------------------------------------------------------------------
(* Leaver world: the revive world with commands that name p1, before and   *)
(* after p1 has been removed                                               *)

NextLeaver ==
    \/ RemovePlayer("p1")
    \/ \E v \in IntentsWorld : MovePlayer("p1", v[1], v[2], MaxWorldMoves)
    \/ RespawnPlayer("p1", MaxWorldMoves)
    \/ checkCollisions
    \/ updatePetals
    \/ checkPetalDrops
    \/ checkPetalCollisions
    \/ checkPetalHealing
    \/ \E k \in 1..Len(revives) : ReviveFire(k)
    \/ AdvanceTo(InstantsRevive)

SpecLeaver == InitRevive /\ [][NextLeaver]_vars

---------------------------------------------------------------------------
(* Claims on the movement world *)

\* the player moved by the last command, after the command
Moved == players[last.pid]

\* C1: at the end of every MovePlayer command that did not teleport, the
\* moved player's position lies inside the rectangle of its CurrentZone.
C1_MoveStaysInZone ==
    (last.op = "MovePlayer" /\ last.pid \in DOMAIN players /\ last.portal = "none")
        => InZone(Moved.CurrentZone, Moved.X, Moved.Y)

\* the step is a MovePlayer command for the connected player p
MoveStep(p) ==
    /\ last'.op = "MovePlayer" /\ last'.pid = p
    /\ nmoves' = nmoves + 1
    /\ p \in DOMAIN players

\* the step teleported p: it stands on the linked portal of last'.portal
Teleported(p) ==
    /\ last'.portal # "none"
    /\ players'[p].X = portals[portals[last'.portal].To].X
    /\ players'[p].Y = portals[portals[last'.portal].To].Y
    /\ players'[p].CurrentZone = portals[portals[last'.portal].To].Zone

\* C2: a MovePlayer processed less than 10 s after the player's last teleport
\* never teleports it, wherever it ends; one processed 10 s or more after it
\* that ends within 100 of a portal teleports it.
C2_PortalCooldown ==
    [][\A p \in PlayerIds :
        (MoveStep(p) /\ via[p].portal # "none") =>
          /\ (now < via[p].at + 100) =>
                /\ last'.portal = "none"
                /\ players'[p].X = last'.x /\ players'[p].Y = last'.y
                /\ players'[p].CurrentZone = players[p].CurrentZone
                /\ sent' = << >>
          /\ (now >= via[p].at + 100 /\ PortalsInRange(last'.x, last'.y) # {}) =>
                Teleported(p)]_vars

\* a command within the cooldown ended inside a portal trigger, no teleport
C2_Witness ==
    /\ last.op = "MovePlayer" /\ last.pid \in DOMAIN players
    /\ last.portal = "none"
    /\ via[last.pid].portal # "none"
    /\ now < via[last.pid].at + 100
    /\ PortalsInRange(Moved.X, Moved.Y) # {}

\* C3: a move that ends within 100 of portal P with the cooldown elapsed puts
\* the player exactly on P's linked portal, in that portal's zone, sets the
\* cooldown deadline 10 s ahead and sends one teleport notification; a
\* teleport through the destination of the previous teleport's portal
\* returns the player to that portal's position and zone.
C3_TeleportEffect ==
    [][\A p \in PlayerIds :
        MoveStep(p) =>
          /\ (now >= players[p].PortalCooldown
                  /\ PortalsInRange(last'.x, last'.y) # {}) =>
                /\ last'.portal \in PortalsInRange(last'.x, last'.y)
                /\ Teleported(p)
          /\ (last'.portal # "none") =>
                /\ Teleported(p)
                /\ players'[p].PortalCooldown = now + 100
                /\ sent' = <<[to |-> p, type |-> "portal_teleport",
                              fromZone |-> portals[last'.portal].Zone,
                              toZone |-> players'[p].CurrentZone]>>
                /\ (via[p].portal # "none"
                        /\ last'.portal = portals[via[p].portal].To) =>
                      /\ players'[p].X = portals[via[p].portal].X
                      /\ players'[p].Y = portals[via[p].portal].Y
                      /\ players'[p].CurrentZone = portals[via[p].portal].Zone]_vars

\* a player went through a portal and came back through its destination
C3_Witness ==
    /\ last.op = "MovePlayer" /\ last.portal = "P2"
    /\ via[last.pid].n >= 2
    /\ Moved.X = 58000 /\ Moved.Y = 15000 /\ Moved.CurrentZone = "common"

---------------------------------------------------------------------------
(* Claims on the loot world *)

\* the step is one pass of checkPetalDrops
DropsStep == last'.op = "checkPetalDrops"

\* player p, alive, stands within the pickup radius (50) of the point (x, y)
AliveInReach(p, x, y) ==
    /\ players[p].Health > 0
    /\ InsideSq(players[p].X - x, players[p].Y - y, 500)

\* the drops of the store, not yet expired, that p owns and can reach
OwnInReach(p) ==
    { d \in DOMAIN petalDrops :
        /\ petalDrops[d].OwnerID = p
        /\ now - petalDrops[d].Created <= 300
        /\ AliveInReach(p, petalDrops[d].X, petalDrops[d].Y) }

\* every drop a pass of checkPetalDrops takes is taken by its owner, alive and
\* within the radius, and leaves the store; every other unexpired drop stays
OnlyOwnerTakes ==
    /\ \A e \in last'.picked :
          /\ e.drop \in OwnInReach(e.player)
          /\ e.drop \notin DOMAIN petalDrops'
    /\ \A d \in DOMAIN petalDrops :
          (now - petalDrops[d].Created <= 300
              /\ ~(\E e \in last'.picked : e.drop = d))
            => (d \in DOMAIN petalDrops' /\ petalDrops'[d] = petalDrops[d])

\* the petals of p after the step are those before it plus one new petal of
\* type kind
GainsOne(p, kind) ==
    \E i \in DOMAIN players'[p].Petals \ DOMAIN players[p].Petals :
       /\ DOMAIN players'[p].Petals = DOMAIN players[p].Petals \cup {i}
       /\ players'[p].Petals[i].Type = kind
       /\ players'[p].Petals[i].OwnerID = p
       /\ \A j \in DOMAIN players[p].Petals :
             players'[p].Petals[j] = players[p].Petals[j]

\* C4 (as stated): in a pass of checkPetalDrops only owners take drops, and
\* every unexpired drop whose owner is alive and within the radius is removed
\* by that pass, the owner gaining one petal per drop.
C4_OwnerTakesEveryDrop ==
    [][DropsStep =>
         /\ OnlyOwnerTakes
         /\ \A p \in DOMAIN players : \A d \in OwnInReach(p) :
               d \notin DOMAIN petalDrops']_vars

\* C4: a drop is taken only by its owner, alive and within the radius; a
\* player that owns no drop in reach gains no petal and removes nothing; an
\* owner with one or more of its drops in reach takes exactly one of them per
\* pass of checkPetalDrops and gains exactly one petal, of that drop's type.
C4_PickupByOwner ==
    [][DropsStep =>
         /\ OnlyOwnerTakes
         /\ \A p \in DOMAIN players :
               LET mine == { e \in last'.picked : e.player = p }
               IN IF OwnInReach(p) = {}
                  THEN mine = {} /\ players'[p] = players[p]
                  ELSE \E e \in mine :
                         /\ mine = {e}
                         /\ e.kind = petalDrops[e.drop].Type
                         /\ GainsOne(p, e.kind)]_vars

\* an owner took its drop while the other player, alive, stood within the
\* pickup radius of that drop
C4_Witness ==
    /\ last.op = "checkPetalDrops"
    /\ \E e \in last.picked : \E q \in DOMAIN players \ {e.player} :
          AliveInReach(q, e.x, e.y)

\* the loot a mob archetype leaves
LootOf == [wolf |-> "wolf", goblin |-> "goblin", orc |-> "orc"]

\* the step takes the health of mob m, alive before it, to zero
Killed(m) ==
    /\ mobs[m].Health > 0
    /\ m \in DOMAIN mobs' => mobs'[m].Health = 0

\* the blows of the step that took mob m to zero health
KillingBlows(m) ==
    { h \in last'.hits :
        h.kind \in {"player_mob", "petal_mob"} /\ h.on = m /\ h.left = 0 }

\* C5: a step that takes a mob's health to zero adds exactly one new drop to
\* the store for it, at the mob's position, of the type mapped from its
\* archetype, owned by the player who (directly or through a petal) landed
\* the blow; a mob that is not killed by the step, or is already dead, gets
\* no drop, and a dead mob never comes back to life.
C5_OneDropPerKill ==
    [][/\ \A m \in DOMAIN mobs :
            LET evs == { e \in last'.made : e.mob = m }
            IN IF Killed(m)
               THEN \E e \in evs : \E h \in KillingBlows(m) :
                      /\ evs = {e}
                      /\ KillingBlows(m) = {h}
                      /\ e.id \notin DOMAIN petalDrops
                      /\ e.id \in DOMAIN petalDrops'
                      /\ petalDrops'[e.id].X = mobs[m].X
                      /\ petalDrops'[e.id].Y = mobs[m].Y
                      /\ petalDrops'[e.id].Type = LootOf[mobs[m].Type]
                      /\ petalDrops'[e.id].OwnerID = h.by
               ELSE /\ evs = {}
                    /\ (m \in DOMAIN mobs' /\ mobs[m].Health = 0)
                          => mobs'[m].Health = 0
       /\ Cardinality(DOMAIN petalDrops' \ DOMAIN petalDrops)
             = Cardinality({ m \in DOMAIN mobs : Killed(m) })]_vars

\* C6: a pass of checkPetalDrops removes every drop whose 30 s lifetime has
\* passed, and a drop leaves the store only in such a pass, either because
\* its lifetime has passed or because its owner took it; until then it stays
\* in the store unchanged.
C6_DropLeavesByExpiryOrOwner ==
    [][/\ DropsStep =>
            \A d \in DOMAIN petalDrops :
               (now - petalDrops[d].Created > 300) => d \notin DOMAIN petalDrops'
       /\ \A d \in DOMAIN petalDrops :
            IF d \in DOMAIN petalDrops'
            THEN petalDrops'[d] = petalDrops[d]
            ELSE /\ DropsStep
                 /\ \/ now - petalDrops[d].Created > 300
                    \/ \E e \in last'.picked :
                         e.drop = d /\ e.player = petalDrops[d].OwnerID]_vars

---------------------------------------------------------------------------
(* Claims on the death world *)

\* the step is a respawn request for player p
RespawnStep(p) == last'.op = "RespawnPlayer" /\ last'.pid = p

\* C7: while a player's health is 0, every step other than its respawn
\* leaves its position and zone unchanged, and the step holds no blow dealt
\* by it to a mob and no blow dealt to it by a mob.
C7_DeadIsInert ==
    [][\A p \in DOMAIN players :
         (players[p].Health = 0 /\ ~RespawnStep(p)) =>
            /\ players'[p].X = players[p].X
            /\ players'[p].Y = players[p].Y
            /\ players'[p].CurrentZone = players[p].CurrentZone
            /\ \A h \in last'.hits :
                  /\ ~(h.kind = "player_mob" /\ h.by = p)
                  /\ ~(h.kind = "mob_player" /\ h.on = p)]_vars

\* C8: after every step a player with health 0 owns no petals, and a
\* player's health leaves 0 only by its own respawn request.
C8_DeadOwnsNothing ==
    [][\A p \in DOMAIN players :
         /\ (players'[p].Health = 0) => (DOMAIN players'[p].Petals = {})
         /\ (players[p].Health = 0 /\ players'[p].Health > 0) => RespawnStep(p)]_vars

\* a pass of checkPetalDrops has just left a dead player's own drop, within
\* its reach, in the store, after the revive timer of one of its petals fired
C8_Witness ==
    /\ last.op = "checkPetalDrops"
    /\ players["p1"].Health = 0
    /\ revives = << >>
    /\ \E d \in DOMAIN petalDrops :
          /\ petalDrops[d].OwnerID = "p1"
          /\ InsideSq(players["p1"].X - petalDrops[d].X,
                      players["p1"].Y - petalDrops[d].Y, 500)

\* C9: a respawn request for a dead player restores full health and puts it
\* on a point of the starting zone that lies inside the rectangle of its
\* CurrentZone; for a living player it changes nothing.
C9_RespawnEffect ==
    [][\A p \in DOMAIN players :
         RespawnStep(p) =>
            IF players[p].Health = 0
            THEN /\ players'[p].Health = players'[p].MaxHealth
                 /\ InZone("common", players'[p].X, players'[p].Y)
                 /\ InZone(players'[p].CurrentZone, players'[p].X, players'[p].Y)
            ELSE players' = players]_vars

\* the stored position of the petal is Radius away from its owner, within
\* the rounding of the fixed-point coordinates (2 tenths of a unit)
OnOrbit(petal, player) ==
    LET dx == petal.X - player.X
        dy == petal.Y - player.Y
    IN /\ Abs(dx) <= petal.Radius + 2
       /\ Abs(dy) <= petal.Radius + 2
       /\ Abs(ISqrt(dx * dx + dy * dy) - petal.Radius) <= 2

\* C10 (as stated): in every reachable state the stored position of every
\* petal is its orbit Radius away from its owner's position.
C10_PetalOnOrbit ==
    \A p \in DOMAIN players : \A i \in DOMAIN players[p].Petals :
       OnOrbit(players[p].Petals[i], players[p])

\* C10: right after every pass of updatePetals the stored position of every
\* active petal is its orbit Radius away from its owner's position.
C10_OnOrbitAfterUpdate ==
    (last.op = "updatePetals") =>
       \A p \in DOMAIN players : \A i \in DOMAIN players[p].Petals :
          players[p].Petals[i].IsActive => OnOrbit(players[p].Petals[i], players[p])

\* updatePetals has just run for a player that went through a portal with
\* an active petal
C10_Witness ==
    /\ last.op = "updatePetals"
    /\ via["p1"].n >= 1
    /\ \E i \in DOMAIN players["p1"].Petals : players["p1"].Petals[i].IsActive

---------------------------------------------------------------------------
(* Claims on the revive world *)

\* player p is in the store and owns petal i
Owns(p, i) == p \in DOMAIN players /\ i \in DOMAIN players[p].Petals

\* the step is the firing of the revive timer number k
Fired(k) ==
    /\ last'.op = "ReviveFire"
    /\ Len(revives') = Len(revives) - 1
    /\ \A j \in 1..Len(revives') :
          revives'[j] = IF j < k THEN revives[j] ELSE revives[j + 1]

\* a step that takes a petal's health to zero deactivates it and starts a
\* timer for it that is due 2 s later; a petal is reactivated only by a timer
DestroyedThenTimed ==
    \A p \in DOMAIN players : \A i \in DOMAIN players[p].Petals :
       (p \in DOMAIN players' /\ i \in DOMAIN players'[p].Petals) =>
          /\ (players[p].Petals[i].Health > 0 /\ players'[p].Petals[i].Health = 0) =>
                /\ ~players'[p].Petals[i].IsActive
                /\ \E k \in 1..Len(revives') :
                      revives'[k] = [owner |-> p, petal |-> i, at |-> now + 20]
          /\ (~players[p].Petals[i].IsActive /\ players'[p].Petals[i].IsActive) =>
                last'.op = "ReviveFire"

\* a timer fires no earlier than it is due; it restores a petal its owner
\* still owns to full health and activity, and otherwise changes no player
\* and sends nothing
TimerRevives ==
    \A k \in 1..Len(revives) :
       Fired(k) =>
          LET r == revives[k]
          IN /\ now >= r.at
             /\ IF Owns(r.owner, r.petal)
                THEN /\ players'[r.owner].Petals[r.petal].IsActive
                     /\ players'[r.owner].Petals[r.petal].Health
                           = players[r.owner].Petals[r.petal].MaxHealth
                ELSE players' = players /\ sent' = << >>

\* the timers pending for petal i of player p
TimersOf(p, i) ==
    { k \in 1..Len(revives) : revives[k].owner = p /\ revives[k].petal = i }

\* every inactive petal in the store has a pending timer
InactiveHasTimer ==
    \A p \in DOMAIN players : \A i \in DOMAIN players[p].Petals :
       ~players[p].Petals[i].IsActive => TimersOf(p, i) # {}

\* C11: a petal whose health reaches zero becomes inactive and gets a revive
\* timer due 2 s later, and stays inactive only while a timer is pending for
\* it; the timer, fired when due, reactivates a petal its owner still owns
\* with Health = MaxHealth and otherwise changes nothing; an inactive petal
\* (whose timer is due at a clock reading the model explores) is eventually
\* active again with full health, unless its owner leaves the store or loses
\* the petal.
C11_PetalRevives ==
    /\ [][DestroyedThenTimed /\ TimerRevives]_vars
    /\ []InactiveHasTimer
    /\ \A p \in PlayerIds : \A i \in 1..2 :
          (Owns(p, i) /\ ~players[p].Petals[i].IsActive
               /\ \E k \in TimersOf(p, i) : revives[k].at \in InstantsRevive)
             ~> (~Owns(p, i)
                   \/ (players[p].Petals[i].IsActive
                         /\ players[p].Petals[i].Health = players[p].Petals[i].MaxHealth))

\* a timer has just revived a destroyed petal of a player that is still in
\* the store, 2 s after the petal was destroyed
C11_Witness ==
    /\ last.op = "ReviveFire"
    /\ now = 20
    /\ Owns("p1", 1)
    /\ players["p1"].Petals[1].IsActive
    /\ players["p1"].Petals[1].Health = players["p1"].Petals[1].MaxHealth

---------------------------------------------------------------------------
(* Claims about the spawn task *)

SpawnStep == last'.op = "spawnMobsIfNeeded"

Shortfall(z) == IF ZoneCount(mobs, z) >= 40 THEN 0 ELSE 40 - ZoneCount(mobs, z)

\* C12: no zone ever holds more than 40 mobs; a spawn cycle adds to a zone
\* at most what the zone lacked when the cycle began, and it makes at most
\* five attempts for every mob the zone lacked.
C12_ZoneCap ==
    /\ [](\A z \in ZoneNames : ZoneCount(mobs, z) <= 40)
    /\ [][SpawnStep =>
            \A z \in ZoneNames :
               /\ ZoneCount(mobs', z) - ZoneCount(mobs, z) <= Shortfall(z)
               /\ last'.spawn[z].need = Shortfall(z)
               /\ last'.spawn[z].spawned <= Shortfall(z)
               /\ last'.spawn[z].attempts <= 5 * Shortfall(z)]_vars

\* a cycle has filled a zone that lacked mobs to exactly 40 with a last batch
\* cut short, and has given up on another after five attempts per missing mob
C12_Witness ==
    /\ last.op = "spawnMobsIfNeeded"
    /\ \E z \in ZoneNames :
          /\ last.spawn[z].need = 2
          /\ last.spawn[z].spawned = 2
          /\ last.spawn[z].attempts = 1
          /\ ZoneCount(mobs, z) = 40
    /\ \E z \in ZoneNames :
          /\ last.spawn[z].need > 0
          /\ last.spawn[z].spawned = 0
          /\ last.spawn[z].attempts = 5 * last.spawn[z].need

---------------------------------------------------------------------------
(* Claims about the tasks: the lock, the connections, the handler *)

StoresChange ==
    \/ players' # players
    \/ mobs' # mobs
    \/ petalDrops' # petalDrops
    \/ connections' # connections

\* C13 (as stated): every write to the player, mob, drop or connection
\* stores is made with Game.mu held exclusively, and no step reads a store
\* or a field of a stored entity without holding the lock.
C13_LockDiscipline ==
    /\ [][StoresChange => mu = {} /\ mu' = {}]_vars
    /\ [][last'.op \in {"BroadcastWrite", "BroadcastSkip"} => "broadcast" \in mu]_vars
    /\ [](last.unlocked = {})

\* C13 (amended): every write to the stores is made with Game.mu held
\* exclusively, the broadcast task reads them with the lock held shared,
\* and the only field of a stored entity read without the lock is the
\* player's ID, which the handler reads from the player AddPlayer returned.
C13_LockedExceptId ==
    /\ [][StoresChange => mu = {} /\ mu' = {}]_vars
    /\ [][last'.op \in {"BroadcastWrite", "BroadcastSkip"} => "broadcast" \in mu]_vars
    /\ [](last.unlocked \subseteq {"ID"})

\* the broadcast task holds the lock shared inside a write while a handler
\* that has left its loop waits to remove its player
C13_Witness ==
    /\ mu = {"broadcast"}
    /\ bcast.pc = "write"
    /\ \E c \in Clients : handlers[c].pc = "exit" /\ c \in DOMAIN players

\* the messages the step has written from inside the lock
LockedSends == { sent'[i].to : i \in 1..Len(sent') }

\* C14: no two tasks are inside a write on the same connection at the same
\* time: never are two tasks registered as writing on it, and a method that
\* writes a notification while holding Game.mu never does so on a
\* connection another task is writing on.
C14_OneWriterPerConnection ==
    /\ [](\A c \in Clients : Cardinality(writing[c]) <= 1)
    /\ [][UNCHANGED writing => \A c \in LockedSends : writing[c] = {}]_vars

\* C15: when a round of the broadcast ends, every connection whose write
\* failed in the round has been removed together with its player, and
\* every other connection of the round has been sent its state.
C15_FailedWriteRemoves ==
    [][last'.op = "BroadcastEnd" =>
         /\ \A c \in bcast.failed : c \notin connections' /\ c \notin DOMAIN players'
         /\ \A i \in 1..Len(bcast.order) :
               bcast.order[i] \in bcast.failed \cup bcast.served]_vars

\* C16: every state message holds exactly the players of the receiver's
\* zone, the mobs of that zone with health above 0, and the drops of that
\* zone whose lifetime has not run out.
C16_SnapshotExact ==
    [][last'.snap.kind # "none" =>
         LET z == players[last'.pid].CurrentZone
         IN /\ last'.snap.players =
                  { p \in DOMAIN players : players[p].CurrentZone = z }
            /\ last'.snap.mobs =
                  { m \in DOMAIN mobs : mobs[m].Zone = z /\ mobs[m].Health > 0 }
            /\ last'.snap.drops =
                  { d \in DOMAIN petalDrops :
                       /\ petalDrops[d].Zone = z
                       /\ now - petalDrops[d].Created <= 300 }]_vars

---------------------------------------------------------------------------
(* Claims about commands that must have no effect *)

\* C17: a MovePlayer command with the vector (0, 0) writes nothing to the
\* player and sends nothing, whoever overlaps the player and wherever it
\* stands.
C17_ZeroVectorIgnored ==
    [][\A p \in PlayerIds :
        (MoveStep(p) /\ last'.dx = 0 /\ last'.dy = 0) =>
           /\ players'[p] = players[p]
           /\ sent' = << >>]_vars

\* the step is a command or a timer that names p, and p is not stored
ForMissing(p) ==
    /\ p \notin DOMAIN players
    /\ last'.pid = p
    /\ last'.op \in {"MovePlayer", "RespawnPlayer", "ReviveFire"}

\* C18: a move, a respawn or a revive timer that names a player who is not
\* in the player store changes no player, mob, drop or connection and
\* writes to no connection; createPetalDrop for such an owner returns the
\* world as it was.
C18_MissingPlayerNoEffect ==
    /\ [][\A p \in PlayerIds :
            ForMissing(p) =>
               /\ UNCHANGED <<players, mobs, petalDrops, connections>>
               /\ sent' = << >>]_vars
    /\ [](\A p \in PlayerIds \ DOMAIN players :
            \A t \in DOMAIN PetalConfigs :
               createPetalDrop(World, p, t, 30000, 15000, "m1") = World)

\* the revive timer of a petal has fired after its owner was removed
C18_Witness ==
    /\ last.op = "ReviveFire"
    /\ last.pid \notin DOMAIN players
    /\ now = 20

\* the step is the handling of an inbound frame of client c that does not
\* decode, has a payload of the wrong shape, or is of an unknown kind
MalformedStep(c) ==
    /\ last'.pid = c
    /\ handlers[c].pc = "loop"
    /\ \/ last'.frame \in {"garbage", "typeIsNumber", "moveNoObject", "unknownType"}
       \* in the server world only a move whose dx was a string is passed
       \* to MovePlayer as (0, 1)
       \/ last'.op = "MovePlayer" /\ last'.dx = 0 /\ last'.dy = 1

\* C19: a malformed inbound message changes no player, mob or drop, and
\* the connection and its player stay: the handler is in its read loop
\* after it.
C19_MalformedDropped ==
    [][\A c \in Clients :
        MalformedStep(c) =>
           /\ UNCHANGED <<players, mobs, petalDrops, connections>>
           /\ handlers'[c].pc = "loop"]_vars

Playing == { c \in Clients : handlers[c].pc \in {"joined", "state", "initial",
                                                  "loop", "pong", "exit"} }

\* C21: once the read of a connection has failed its handler ends and the
\* player and the connection entry of that connection leave the world; the
\* removal neither removes nor changes the player or the connection entry
\* of any other connection.
C21_DisconnectRemovesOnlyOwn ==
    [][\A c \in Clients :
          (/\ handlers[c].pc = "exit"
           /\ handlers[c].err = "ReadJSON"
           /\ handlers'[c].pc = "closed") =>
             /\ handlers[c].pid \notin DOMAIN players'
             /\ handlers[c].pid \notin connections'
             /\ \A d \in Playing \ {c} :
                   /\ handlers[d].pid \in DOMAIN players'
                   /\ players'[handlers[d].pid] = players[handlers[d].pid]
                   /\ handlers[d].pid \in connections'
                   /\ handlers'[d].entry = handlers[d].entry]_vars

\* C22: a move command delivered twice in a row changes the world no
\* further than its first delivery: the second MovePlayer(p, dx, dy) leaves
\* every player where the first one put it.
C22_MoveIdempotent ==
    [][(/\ last.op = "MovePlayer"
        /\ last'.op = "MovePlayer"
        /\ last'.pid = last.pid
        /\ last'.dx = last.dx
        /\ last'.dy = last.dy) => players' = players]_vars

\* player p has no neighbour that a step could bring into avoidance range,
\* and no zone edge and no portal trigger within a step
OpenField(p) ==
    LET pl == players[p]
        reach == pl.Speed + 1
    IN /\ pl.CurrentZone \in ZoneNames
       /\ pl.X - reach >= zones[pl.CurrentZone].MinX
       /\ pl.X + reach <= zones[pl.CurrentZone].MaxX
       /\ pl.Y - reach >= zones[pl.CurrentZone].MinY
       /\ pl.Y + reach <= zones[pl.CurrentZone].MaxY
       /\ \A q \in PortalIds :
             ~WithinSq(pl.X - portals[q].X, pl.Y - portals[q].Y, PortalRadius + reach)
       /\ \A o \in DOMAIN players \ {p} :
             ~InsideSq(pl.X - players[o].X, pl.Y - players[o].Y,
                       pl.Radius + players[o].Radius + CollisionBuffer + reach)

\* (ddx, ddy) has length speed and the direction of (dx, dy), to the
\* resolution of a tenth of a unit per coordinate
DisplacedBySpeed(ddx, ddy, dx, dy, speed) ==
    /\ ddx * ddx + ddy * ddy >= (speed - 1) * (speed - 1)
    /\ ddx * ddx + ddy * ddy <= (speed + 1) * (speed + 1)
    /\ 2 * Abs(ddx * dy - ddy * dx) <= Abs(dx) + Abs(dy)
    /\ ddx * dx + ddy * dy > 0

\* the MovePlayer steps of a player in the open field with a non-zero
\* intent whose exponent is in E displace the player by its Speed in the
\* direction of the intent
SpeedSteps(E) ==
    \A p \in DOMAIN players :
       (/\ last'.op = "MovePlayer"
        /\ last'.pid = p
        /\ OpenField(p)
        /\ last'.dx # 0 \/ last'.dy # 0
        /\ last'.exp10 \in E) =>
          DisplacedBySpeed(players'[p].X - players[p].X, players'[p].Y - players[p].Y,
                           last'.dx, last'.dy, players[p].Speed)

C24_MobHealthInRange ==
    \A id \in DOMAIN mobs : mobs[id].Health >= 0 /\ mobs[id].Health <= mobs[id].MaxHealth

\* a petal has hit a mob for more than the health it had left: the mob
\* lies in the store with health 0
C24_Witness ==
    /\ last.op = "checkPetalCollisions"
    /\ \E id \in DOMAIN mobs : mobs[id].Health = 0 /\ mobs[id].MaxHealth > 0

\* C25: a collision sweep leaves no mob with health 0 in the store, be it
\* killed by a petal before the sweep or by a player during it; and a mob
\* leaves the store only in a collision sweep, having had health 0 before
\* the sweep or having been taken to 0 by a blow of the sweep.
C25_DeadMobsSwept ==
    [][/\ last'.op = "checkCollisions" =>
             /\ \A id \in DOMAIN mobs' : mobs'[id].Health > 0
             /\ \A id \in DOMAIN mobs : mobs[id].Health = 0 => id \notin DOMAIN mobs'
       /\ \A id \in DOMAIN mobs \ DOMAIN mobs' :
             /\ last'.op = "checkCollisions"
             /\ mobs[id].Health = 0 \/ KillingBlows(id) # {}]_vars

\* a sweep has just emptied the store: it removed the wolf, which a petal
\* had killed before, and the goblin, which a player killed during the sweep
C25_Witness ==
    /\ last.op = "checkCollisions"
    /\ DOMAIN mobs = {}
    /\ \E h \in last.hits : h.kind = "player_mob" /\ h.on = "m1" /\ h.left = 0
    /\ \A h \in last.hits : h.on # "m2"

\* the damage events of the step in which mob m hurt a player or a petal
MobBlows(m) ==
    { h \in last'.hits : h.kind \in {"mob_player", "mob_petal"} /\ h.by = m }

\* C26: a mob deals damage only when its cooldown of 100 ms has passed
\* since it last dealt damage: in one step a mob hurts at most one player
\* or petal, however many it overlaps; a step in which it deals damage
\* finds its last damage at least the cooldown back and records the
\* present time as the time of its last damage.
C26_MobCooldown ==
    [][\A m \in DOMAIN mobs :
          /\ Cardinality(MobBlows(m)) <= 1
          /\ MobBlows(m) # {} =>
                /\ now - mobs[m].LastHitTime >= 1
                /\ m \in DOMAIN mobs' => mobs'[m].LastHitTime = now
          /\ (m \in DOMAIN mobs' /\ mobs'[m].LastHitTime # mobs[m].LastHitTime) =>
                MobBlows(m) # {}]_vars

\* a mob overlapped a player in the collision sweep (the player hit it) and
\* did not hurt the player, having hurt a petal in the same tick
C26_Witness ==
    /\ last.op = "checkCollisions"
    /\ \E m \in DOMAIN mobs :
          /\ mobs[m].LastHitTime = now
          /\ \E h \in last.hits : h.kind = "player_mob" /\ h.on = m
          /\ \A h \in last.hits : ~(h.kind = "mob_player" /\ h.by = m)

\* the petals of player p that the step has marked as having healed
Healers(p) ==
    { i \in DOMAIN players[p].Petals :
        /\ i \in DOMAIN players'[p].Petals
        /\ players'[p].Petals[i].LastHeal # players[p].Petals[i].LastHeal }

RECURSIVE HealSum(_, _)
HealSum(p, I) ==
    IF I = {} THEN 0
    ELSE LET i == CHOOSE j \in I : TRUE
         IN players[p].Petals[i].HealAmount + HealSum(p, I \ {i})

\* C27: a petal heals its owner only when it is active, has a positive
\* heal amount, its heal interval has passed since its last heal and the
\* owner's health is below MaxHealth; the heals of a step add the heal
\* amounts to the owner's health, capped at MaxHealth; a player's health
\* changes in the healing step in no other way, and in every state
\* 0 <= Health <= MaxHealth holds for every player.
C27_HealingRules ==
    /\ [](\A p \in DOMAIN players :
            players[p].Health >= 0 /\ players[p].Health <= players[p].MaxHealth)
    /\ [][last'.op = "checkPetalHealing" =>
            \A p \in DOMAIN players :
               /\ p \in DOMAIN players'
               /\ \A i \in Healers(p) :
                     /\ players[p].Petals[i].IsActive
                     /\ players[p].Petals[i].HealAmount > 0
                     /\ now - players[p].Petals[i].LastHeal >= players[p].Petals[i].HealRate
                     /\ players'[p].Petals[i].LastHeal = now
               /\ Healers(p) # {} => players[p].Health < players[p].MaxHealth
               /\ LET sum == players[p].Health + HealSum(p, Healers(p))
                  IN players'[p].Health = IF sum > players[p].MaxHealth
                                          THEN players[p].MaxHealth ELSE sum]_vars

\* a heal has just brought a player from less than a heal amount below
\* MaxHealth to MaxHealth
C27_Witness ==
    /\ last.op = "checkPetalHealing"
    /\ \E k \in 1..Len(sent) :
          /\ sent[k].type = "petal_healed"
          /\ sent[k].health = 100
          /\ players[sent[k].to].Health = players[sent[k].to].MaxHealth

\* the point (x, y) lies in the rectangle of no zone
InNoZone(x, y) ==
    \A z \in ZoneNames :
       ~(x >= zones[z].MinX /\ x <= zones[z].MaxX /\ y >= zones[z].MinY /\ y <= zones[z].MaxY)

ZoneCentre(z) ==
    <<(zones[z].MinX + zones[z].MaxX) \div 2, (zones[z].MinY + zones[z].MaxY) \div 2>>

\* the zones whose centre is nearest to (x, y); distances compared in units
NearestZones(x, y) ==
    LET d(z) == ((x - ZoneCentre(z)[1]) \div 10) * ((x - ZoneCentre(z)[1]) \div 10)
              + ((y - ZoneCentre(z)[2]) \div 10) * ((y - ZoneCentre(z)[2]) \div 10)
    IN { z \in ZoneNames : \A o \in ZoneNames : d(z) <= d(o) }

\* C28: a move processed for a player whose position lies in no zone's
\* rectangle puts the player at the centre of the zone whose centre is
\* nearest and makes that zone's key its CurrentZone.
C28_GapSnapsToCentre ==
    [][\A p \in DOMAIN players :
          (/\ last'.op = "MovePlayer"
           /\ last'.pid = p
           /\ InNoZone(players[p].X, players[p].Y)) =>
             \E z \in NearestZones(players[p].X, players[p].Y) :
                /\ players'[p].X = ZoneCentre(z)[1]
                /\ players'[p].Y = ZoneCentre(z)[2]
                /\ players'[p].CurrentZone = z]_vars

\* the mobs the step has put into the store
Inserted == { id \in DOMAIN mobs' : id \notin DOMAIN mobs \/ mobs'[id] # mobs[id] }

\* mob m lies inside the rectangle of its zone
InOwnZone(m) ==
    /\ m.Zone \in ZoneNames
    /\ m.X >= zones[m.Zone].MinX
    /\ m.X <= zones[m.Zone].MaxX
    /\ m.Y >= zones[m.Zone].MinY
    /\ m.Y <= zones[m.Zone].MaxY

Iterating == bcast.pc \in {"next", "write", "unlocked", "removed"}

\* C30: broadcastGameState never gives up the lock of the connection table
\* in the middle of its loop over the table, and the table is never
\* modified while the loop is under way.
C30_BroadcastKeepsLock ==
    [][(Iterating /\ Iterating') =>
          /\ <<"broadcast", "R">> \in locks'.connectionsMu
          /\ connections' = connections]_vars

---------------------------------------------------------------------------
(* Claims about petal health *)

\* C38: in every reachable state every petal of every player has
\* 0 <= Health <= MaxHealth, and it is active exactly when its health is
\* positive, across damage, deactivation and revive.
C38_PetalHealthInRange ==
    \A p \in DOMAIN players : \A i \in DOMAIN players[p].Petals :
       LET petal == players[p].Petals[i]
       IN /\ petal.Health >= 0
          /\ petal.Health <= petal.MaxHealth
          /\ petal.IsActive <=> petal.Health > 0

\* a mob's blow has just taken a wounded petal to zero health and
\* deactivated it, and its revive timer is pending
C38_Witness ==
    /\ last.op = "checkPetalCollisions"
    /\ \E h \in last.hits : h.kind = "mob_petal" /\ h.on = "p1" /\ h.left = 0
    /\ Owns("p1", 1)
    /\ ~players["p1"].Petals[1].IsActive
    /\ players["p1"].Petals[1].Health = 0
    /\ players["p1"].Petals[1].MaxHealth = 20
    /\ Len(revives) >= 1

---------------------------------------------------------------------------
(* Crowd world: one petal within reach of two mobs *)

\* p1 unhurt, out of reach of both mobs; its orc petal, with the given
\* health, orbits between two orcs, the second of which stands at (30700, y)
CrowdArena(health, y) ==
    [ players |->
        [p \in PlayerIds |->
           IF p = "p1"
           THEN [NewPlayer(30000, 15000) EXCEPT
                   !.LastHitTime = 0 - 1,
                   !.Petals = (1 :> [OrbitingPetal("orc", "p1", 0, 30000, 15000)
                                       EXCEPT !.Health = health])]
           ELSE [NewPlayer(12345, 6789) EXCEPT !.LastHitTime = 0 - 1]],
      mobs |->
        ( "m1" :> OldMob("orc", "common", 30900, 15000, "common", 0, 0)
       @@ "m2" :> OldMob("orc", "common", 30700, y, "common", 0, 0) ),
      revives |-> << >> ]

\* health the petal has left at the start: one blow or two blows from zero
PetalLevels == {5, 20}

\* where the second orc stands: within the petal's reach or not
OrcSpots == {15300, 16000}

\* two consecutive ticks and the moment a revive started at 0 or 1 is due
InstantsCrowd == {0, 1, 20, 21}

InitCrowd == \E h \in PetalLevels, y \in OrcSpots : InitArena(CrowdArena(h, y))

NextCrowd ==
    \/ checkCollisions
    \/ updatePetals
    \/ checkPetalDrops
    \/ checkPetalCollisions
    \/ checkPetalHealing
    \/ \E k \in 1..Len(revives) : ReviveFire(k)
    \/ AdvanceTo(InstantsCrowd)

SpecCrowd == InitCrowd /\ [][NextCrowd]_vars

---------------------------------------------------------------------------
(* Claims about the destruction of petals *)

\* the revive timers in the sequence rs that are for petal i of player p
TimersFor(rs, p, i) ==
    { k \in 1..Len(rs) : rs[k].owner = p /\ rs[k].petal = i }

\* the destroyed notifications for petal i of player p among the messages ms
DestroyedNotes(ms, p, i) ==
    { k \in 1..Len(ms) : ms[k].to = p /\ ms[k].type = "petal_destroyed"
                           /\ ms[k].petal_id = i }

\* C33: a petal-collision pass that deactivates a petal schedules exactly one
\* revive for it and sends exactly one destroyed notification for it, and a
\* pass that does not deactivate it schedules and sends none (an inactive
\* petal takes no further hits, so a petal overlapping several mobs is not
\* destroyed twice).
C33_DestroyedOnce ==
    [][last'.op = "checkPetalCollisions" =>
         \A p \in DOMAIN players : \A i \in DOMAIN players[p].Petals :
            LET deactivated == /\ players[p].Petals[i].IsActive
                               /\ ~players'[p].Petals[i].IsActive
                timers == Cardinality(TimersFor(revives', p, i))
                             - Cardinality(TimersFor(revives, p, i))
                notes == Cardinality(DestroyedNotes(sent', p, i))
            IN IF deactivated THEN timers = 1 /\ notes = 1
               ELSE timers = 0 /\ notes = 0]_vars

---------------------------------------------------------------------------
(* Claims about dead mobs *)

\* C32: a mob whose health is 0 deals no damage: every blow a mob lands on a
\* player or on a petal is landed by a mob with positive health, also within
\* the collision in which a petal's hit killed it.
C32_DeadMobHarmless ==
    \A h \in last.hits : h.kind \in {"mob_player", "mob_petal"} => h.hp > 0

---------------------------------------------------------------------------
(* Claims about identifiers *)

\* C40: identifiers are unique per store.  The id AddPlayer returns is not
\* the id of a player already in the store; every drop a step creates gets
\* an id that no drop had before the step and no other drop of the step
\* gets; every mob a spawn round counts as spawned is a new entry of the mob
\* store.  So no creation overwrites another entity.
C40_IdsUnique ==
    [][/\ last'.op = "AddPlayer" =>
             handlers'[last'.pid].pid \notin DOMAIN players
       /\ last'.made # {} =>
             /\ \A e \in last'.made : e.id \notin DOMAIN petalDrops
             /\ Cardinality(DOMAIN petalDrops' \ DOMAIN petalDrops)
                   = Cardinality(last'.made)
       /\ last'.op = "spawnMobsIfNeeded" =>
             \A z \in DOMAIN last'.spawn :
                ZoneCount(mobs', z) = ZoneCount(mobs, z) + last'.spawn[z].spawned]_vars

---------------------------------------------------------------------------
(* The behaviour task of the single-lock world: every 100 ms UpdateMobs    *)
(* updates the behaviour of every mob and then pushes overlapping mobs     *)
(* apart, all under Game.mu.  Speeds are tenths of a unit per tick.        *)

\* MobCollisionBuffer = 2.0
MobCollisionBuffer == 20

\* the squared distance of two points farther apart than any range of the
\* model (it stands for squares that do not fit 32 bits)
FarSq == 2000000000

\* dx*dx + dy*dy
DistSq(dx, dy) ==
    IF Abs(dx) > 30000 \/ Abs(dy) > 30000 THEN FarSq ELSE dx * dx + dy * dy

\* 10000 * (math.Cos(a), math.Sin(a)) for a = math.Atan2(dy, dx)
Direction(dx, dy) ==
    IF dx = 0 /\ dy = 0 THEN <<10000, 0>>
    ELSE LET d == ISqrt(dx * dx + dy * dy)
         IN <<RDiv(dx * 10000, d), RDiv(dy * 10000, d)>>

\* the direction u turned by d milliradians
Turn(u, d) ==
    LET c == Cos(Abs(d))
        s == IF d < 0 THEN 0 - Sin(Abs(d)) ELSE Sin(Abs(d))
    IN <<RDiv(u[1] * c - u[2] * s, 10000), RDiv(u[2] * c + u[1] * s, 10000)>>

\* the vector of the given length in direction u
Along(u, length) == <<RDiv(u[1] * length, 10000), RDiv(u[2] * length, 10000)>>

\* the random draws of one tick: angle and distance of SetRandomTarget, the
\* deviation of the chase angle (waves plus random factor, within 1.19 rad)
\* and the variation of the chase speed (within 0.6)
AiTapes ==
    { [angle |-> 0, distance |-> 1000, deviation |-> 0, variation |-> 0],
      [angle |-> 4712, distance |-> 1500, deviation |-> 1190, variation |-> 6],
      [angle |-> 3142, distance |-> 500, deviation |-> 0 - 1190, variation |-> 3] }

\* the nearest living player of the zone, in range order po (the first of
\* the nearest ones wins), and the square of its distance
findClosestPlayerInZoneLocked(ps, po, x, y, zone) ==
    LET C == { i \in 1..Len(po) : /\ ps[po[i]].CurrentZone = zone
                                  /\ PlayerIsAlive(ps[po[i]]) }
        d(i) == DistSq(x - ps[po[i]].X, y - ps[po[i]].Y)
        best == CHOOSE i \in C : \A j \in C : d(i) < d(j) \/ (d(i) = d(j) /\ i <= j)
    IN IF C = {} THEN [player |-> "", distSq |-> FarSq]
       ELSE [player |-> po[best], distSq |-> d(best)]

SetRandomTarget(m, tape) ==
    LET newTargetX == m.X + RDiv(Cos(tape.angle) * tape.distance, 10000)
        newTargetY == m.Y + RDiv(Sin(tape.angle) * tape.distance, 10000)
    IN IF Abs(newTargetX - m.X) > 100 \/ Abs(newTargetY - m.Y) > 100
       THEN [m EXCEPT !.TargetX = newTargetX, !.TargetY = newTargetY,
                      !.LastMoveTime = now]
       ELSE m

\* the first other mob of the zone, in range order mo, that is nearer than
\* the two radii plus the buffer plus 10 turns the mob's target away from it
avoidOtherMobsLocked(ms, mo, id) ==
    LET mob == ms[id]
        minDist(o) == mob.Radius + ms[o].Radius + MobCollisionBuffer + 100
        near == { i \in 1..Len(mo) :
                    /\ mo[i] # id
                    /\ ms[mo[i]].Zone = mob.Zone
                    /\ InsideSq(mob.X - ms[mo[i]].X, mob.Y - ms[mo[i]].Y,
                                minDist(mo[i])) }
    IN IF near = {} THEN mob
       ELSE LET o == mo[CHOOSE i \in near : \A j \in near : i <= j]
                v == Along(Direction(mob.X - ms[o].X, mob.Y - ms[o].Y),
                           minDist(o) + 300)
            IN [mob EXCEPT !.TargetX = mob.X + v[1], !.TargetY = mob.Y + v[2],
                           !.LastMoveTime = now]

\* the chase target: a point near the player, off the straight line by the
\* tick's deviation
ChaseTarget(mob, player, distSq, tape) ==
    LET u == Turn(Direction(player.X - mob.X, player.Y - mob.Y), tape.deviation)
        third == RDiv(3 * ISqrt(distSq), 10)
        targetDistance == IF third > 1000 THEN 1000
                          ELSE IF third < 400 THEN 400 ELSE third
        v == Along(u, targetDistance)
    IN [mob EXCEPT !.TargetX = player.X - v[1], !.TargetY = player.Y - v[2],
                   !.LastMoveTime = now, !.Speed = 180 + tape.variation]

\* the orc attacking whenever a player is in melee range, cooldown or not
updateOrcBehavior_eager(mob, ps, c, tape) ==
    IF c.player # "" /\ c.distSq <= mob.DetectionRange * mob.DetectionRange
    THEN LET player == ps[c.player]
             m1 == IF mob.State # "chasing" /\ mob.State # "attacking"
                   THEN [mob EXCEPT !.State = "chasing", !.TargetPlayer = c.player]
                   ELSE mob
             attackRange == mob.Radius + PlayerRadius + 100
         IN IF c.distSq <= attackRange * attackRange
            THEN IF TRUE
                 THEN LET v == Along(Direction(player.X - mob.X, player.Y - mob.Y),
                                     mob.Radius + PlayerRadius + 50)
                      IN [m1 EXCEPT !.State = "attacking",
                                    !.AttackCooldown = now + 20,
                                    !.TargetX = player.X - v[1],
                                    !.TargetY = player.Y - v[2],
                                    !.Speed = 180]
                 ELSE m1
            ELSE LET m2 == [m1 EXCEPT !.State = "chasing"]
                 IN IF now - m2.LastMoveTime > 3
                    THEN ChaseTarget(m2, player, c.distSq, tape)
                    ELSE m2
    ELSE LET m1 == [mob EXCEPT !.State = "wandering", !.TargetPlayer = "",
                               !.Speed = 8]
         IN IF now - m1.LastMoveTime > 30 THEN SetRandomTarget(m1, tape) ELSE m1

\* the orc: chases a detected player and attacks it in melee range
updateOrcBehavior(mob, ps, c, tape) ==
    IF c.player # "" /\ c.distSq <= mob.DetectionRange * mob.DetectionRange
    THEN LET player == ps[c.player]
             m1 == IF mob.State # "chasing" /\ mob.State # "attacking"
                   THEN [mob EXCEPT !.State = "chasing", !.TargetPlayer = c.player]
                   ELSE mob
             attackRange == mob.Radius + PlayerRadius + 100
         IN IF c.distSq <= attackRange * attackRange
            THEN IF now > m1.AttackCooldown
                 THEN LET v == Along(Direction(player.X - mob.X, player.Y - mob.Y),
                                     mob.Radius + PlayerRadius + 50)
                      IN [m1 EXCEPT !.State = "attacking",
                                    !.AttackCooldown = now + 20,
                                    !.TargetX = player.X - v[1],
                                    !.TargetY = player.Y - v[2],
                                    !.Speed = 180]
                 ELSE m1
            ELSE LET m2 == [m1 EXCEPT !.State = "chasing"]
                 IN IF now - m2.LastMoveTime > 3
                    THEN ChaseTarget(m2, player, c.distSq, tape)
                    ELSE m2
    ELSE LET m1 == [mob EXCEPT !.State = "wandering", !.TargetPlayer = "",
                               !.Speed = 8]
         IN IF now - m1.LastMoveTime > 30 THEN SetRandomTarget(m1, tape) ELSE m1

\* the wolf: wanders
updateWolfBehavior(mob, ps, c, tape) ==
    IF mob.State # "wandering" \/ now - mob.LastMoveTime > 30
    THEN SetRandomTarget([mob EXCEPT !.State = "wandering"], tape)
    ELSE mob

\* the goblin: flees from a detected player
updateGoblinBehavior(mob, ps, c, tape) ==
    IF c.player # "" /\ c.distSq <= mob.DetectionRange * mob.DetectionRange
    THEN LET player == ps[c.player]
             v == Along(Direction(mob.X - player.X, mob.Y - player.Y), 2000)
         IN [mob EXCEPT !.State = "fleeing",
                        !.TargetX = mob.X + v[1], !.TargetY = mob.Y + v[2],
                        !.LastMoveTime = now]
    ELSE LET m1 == [mob EXCEPT !.State = "wandering"]
         IN IF now - m1.LastMoveTime > 30 THEN SetRandomTarget(m1, tape) ELSE m1

constrainMobToZone(mob, newX, newY) ==
    LET zone == zones[mob.Zone]
    IN << IF newX < zone.MinX THEN zone.MinX
          ELSE IF newX > zone.MaxX THEN zone.MaxX ELSE newX,
          IF newY < zone.MinY THEN zone.MinY
          ELSE IF newY > zone.MaxY THEN zone.MaxY ELSE newY >>

\* one step of mob.Speed towards the target, clamped to the zone
moveMobLocked(mob) ==
    LET dx == mob.TargetX - mob.X
        dy == mob.TargetY - mob.Y
    IN IF mob.TargetX = 0 /\ mob.TargetY = 0 THEN mob
       ELSE IF WithinSq(dx, dy, 50) THEN mob
       ELSE LET v == Along(Direction(dx, dy), mob.Speed)
                to == constrainMobToZone(mob, mob.X + v[1], mob.Y + v[2])
            IN [mob EXCEPT !.X = to[1], !.Y = to[2]]

\* updateMobBehavior for mob id: po is the range order of the players, mo
\* the range order of the mobs in avoidOtherMobsLocked
updateMobBehavior(ms, ps, po, mo, id, tape) ==
    LET c == findClosestPlayerInZoneLocked(ps, po, ms[id].X, ms[id].Y, ms[id].Zone)
        m1 == avoidOtherMobsLocked(ms, mo, id)
        m2 == CASE m1.Type = "orc" -> updateOrcBehavior(m1, ps, c, tape)
                [] m1.Type = "wolf" -> updateWolfBehavior(m1, ps, c, tape)
                [] m1.Type = "goblin" -> updateGoblinBehavior(m1, ps, c, tape)
    IN [ms EXCEPT ![id] = moveMobLocked(m2)]

RECURSIVE updateAll(_, _, _, _, _, _, _)
updateAll(ms, ps, po, mo, list, i, tape) ==
    IF i > Len(list) THEN ms
    ELSE updateAll(updateMobBehavior(ms, ps, po, mo, list[i], tape),
                   ps, po, mo, list, i + 1, tape)

\* the targets of two mobs that were pushed apart are turned away from
\* each other by 0.7 * pi/2, if the mobs are on their way
adjustMobTargets(mobA, mobB, u) ==
    LET avoidDistance == mobA.Radius + mobB.Radius + 200
        va == Along(Turn(u, 1100), avoidDistance)
        vb == Along(Turn(u, 0 - 1100), avoidDistance)
    IN << IF ~WithinSq(mobA.TargetX - mobA.X, mobA.TargetY - mobA.Y, 100)
          THEN [mobA EXCEPT !.TargetX = mobA.X + va[1], !.TargetY = mobA.Y + va[2]]
          ELSE mobA,
          IF ~WithinSq(mobB.TargetX - mobB.X, mobB.TargetY - mobB.Y, 100)
          THEN [mobB EXCEPT !.TargetX = mobB.X + vb[1], !.TargetY = mobB.Y + vb[2]]
          ELSE mobB >>

\* the body of the double loop for the pair (a, b): two overlapping mobs of
\* one zone are each shifted by 0.75 of the overlap
resolvePair(ms, a, b) ==
    LET dx == ms[a].X - ms[b].X
        dy == ms[a].Y - ms[b].Y
        minDist == ms[a].Radius + ms[b].Radius + MobCollisionBuffer
    IN IF /\ ms[a].Zone = ms[b].Zone
          /\ InsideSq(dx, dy, minDist)
          /\ (dx # 0 \/ dy # 0)
       THEN LET distance == ISqrt(dx * dx + dy * dy)
                u == Direction(dx, dy)
                v == Along(u, RDiv((minDist - distance) * 3, 4))
                moved == adjustMobTargets(
                            [ms[a] EXCEPT !.X = @ + v[1], !.Y = @ + v[2]],
                            [ms[b] EXCEPT !.X = @ - v[1], !.Y = @ - v[2]], u)
            IN [ms EXCEPT ![a] = moved[1], ![b] = moved[2]]
       ELSE ms

RECURSIVE resolveFrom(_, _, _, _)
resolveFrom(ms, mo, i, j) ==
    IF i > Len(mo) THEN ms
    ELSE IF j > Len(mo) THEN resolveFrom(ms, mo, i + 1, i + 2)
    ELSE resolveFrom(resolvePair(ms, mo[i], mo[j]), mo, i, j + 1)

\* resolveMobCollisionsLocked over the mobs in range order mo
resolveMobCollisionsLocked(ms, mo) == resolveFrom(ms, mo, 1, 2)

\* one round of mobBehaviorLoop
UpdateMobs ==
    /\ aiTick
    /\ aiTick' = FALSE
    /\ \E po \in Orders(DOMAIN players), list \in Orders(DOMAIN mobs),
          mo \in Orders(DOMAIN mobs), co \in Orders(DOMAIN mobs),
          tape \in AiTapes :
          mobs' = resolveMobCollisionsLocked(
                     updateAll(mobs, players, po, mo, list, 1, tape), co)
    /\ sent' = << >>
    /\ last' = [NoLast EXCEPT !.op = "UpdateMobs"]
    /\ Lock
    /\ UNCHANGED srvvars
    /\ UNCHANGED <<players, connections, petalDrops, revives, now, petalPc,
                   petalTick, collTick, via, nmoves>>

---------------------------------------------------------------------------
(* Hunt world: an orc and a goblin near a living and a dead player *)

\* p1 alive at (30000, 15000) with an orc at the given distance on its
\* right and a goblin farther off; p2 lies dead between p1 and the goblin
HuntArena(gap) ==
    [ players |->
        [p \in PlayerIds |->
           IF p = "p1"
           THEN [NewPlayer(30000, 15000) EXCEPT !.LastHitTime = 0 - 1]
           ELSE [NewPlayer(31500, 15000) EXCEPT !.LastHitTime = 0 - 1,
                                                !.Health = 0]],
      mobs |->
        ( "m1" :> OldMob("orc", "common", 30000 + gap, 15000, "common", 0, 0)
       @@ "m2" :> OldMob("goblin", "common", 33000, 15000, "common", 0, 0) ),
      revives |-> << >> ]

\* distance of the orc from p1: just inside melee range (50 units), just
\* outside it, or beyond detection range (500 units)
OrcGaps == {490, 515, 5010}

\* the steps p1's client sends
IntentsHunt == {<<1, 0>>, <<-1, 0>>}

\* ticks of the behaviour loop: three in a row, then the first ones after
\* the cooldown of an attack made at 0 or 1
InstantsHunt == {0, 1, 2, 21, 22}

InitHunt == \E gap \in OrcGaps : InitArena(HuntArena(gap))

NextHunt ==
    \/ \E v \in IntentsHunt : MovePlayer("p1", v[1], v[2], MaxWorldMoves)
    \/ UpdateMobs
    \/ AdvanceTo(InstantsHunt)

SpecHunt == InitHunt /\ [][NextHunt]_vars

---------------------------------------------------------------------------
(* Claims about the behaviour of mobs *)

\* a living player of mob m's zone is within r of it
PlayerWithin(m, r) ==
    \E p \in DOMAIN players :
       /\ PlayerIsAlive(players[p])
       /\ players[p].CurrentZone = mobs[m].Zone
       /\ WithinSq(players[p].X - mobs[m].X, players[p].Y - mobs[m].Y, r)

\* what a step may do to the state of orc m
OrcStep(m) ==
    /\ (mobs'[m].State = "attacking" /\ mobs[m].State # "attacking") =>
          /\ last'.op = "UpdateMobs"
          /\ PlayerWithin(m, mobs[m].Radius + 150 + 100)
          /\ now > mobs[m].AttackCooldown
          /\ mobs'[m].AttackCooldown = now + 20
    /\ mobs'[m].AttackCooldown # mobs[m].AttackCooldown =>
          /\ mobs'[m].State = "attacking"
          /\ now > mobs[m].AttackCooldown
          /\ mobs'[m].AttackCooldown = now + 20
    /\ last'.op = "UpdateMobs" =>
          IF PlayerWithin(m, 5000)
          THEN mobs'[m].State \in {"chasing", "attacking"}
          ELSE mobs'[m].State = "wandering"
    /\ mobs'[m].State # mobs[m].State => last'.op = "UpdateMobs"
    /\ mobs'[m].State # "fleeing"

\* C31: an orc's state becomes Attacking only in an AI tick in which a living
\* player of its zone is within melee range (radius + 15 + 10) and its attack
\* cooldown has elapsed, and the tick then sets the cooldown 2 s ahead; the
\* cooldown changes at no other moment, so two entries into Attacking are
\* more than 2 s apart; after a tick the orc is Chasing or Attacking if a
\* living player of its zone was within detection range (500) and Wandering
\* otherwise; it is never Fleeing.
C31_OrcStates ==
    [][\A m \in DOMAIN mobs \cap DOMAIN mobs' :
          mobs[m].Type = "orc" => OrcStep(m)]_vars

\* a tick at 2.1 s has just put the orc into Attacking next to the living
\* player and set its cooldown to 4.1 s
C31_Witness ==
    /\ last.op = "UpdateMobs"
    /\ now = 21
    /\ mobs["m1"].State = "attacking"
    /\ mobs["m1"].AttackCooldown = 41
    /\ PlayerWithin("m1", mobs["m1"].Radius + 150 + 100)

---------------------------------------------------------------------------
(* Herd world: mobs at the lower edge of the common zone, no player near *)

\* two orcs spawned on top of each other close to the edge y = 0 (the first
\* one `depth` above it) and a wolf on the edge; both players are far away
HerdArena(depth) ==
    [ players |->
        [p \in PlayerIds |->
           IF p = "p1"
           THEN [NewPlayer(30000, 15000) EXCEPT !.LastHitTime = 0 - 1]
           ELSE [NewPlayer(12345, 16789) EXCEPT !.LastHitTime = 0 - 1]],
      mobs |->
        ( "m1" :> OldMob("orc", "common", 30000, depth, "common", 0, 0)
       @@ "m2" :> OldMob("orc", "common", 30000, depth + 300, "common", 0, 0)
       @@ "m3" :> OldMob("wolf", "common", 10000, 50, "common", 0, 0) ),
      revives |-> << >> ]

\* how far above the edge the lower orc stands
Depths == {100, 1000, 5000}

\* two ticks in a row and the first one after the 3 s a mob keeps a target
InstantsHerd == {0, 1, 31}

InitHerd == \E depth \in Depths : InitArena(HerdArena(depth))

NextHerd ==
    \/ UpdateMobs
    \/ AdvanceTo(InstantsHerd)

SpecHerd == InitHerd /\ [][NextHerd]_vars

\* C37: after every AI tick (behaviour update, then the mob-mob collision
\* pass) every mob's position lies inside the rectangle of its zone, and no
\* step changes the Zone of a mob.
C37_MobsStayInZone ==
    [][/\ last'.op = "UpdateMobs" =>
             \A m \in DOMAIN mobs' :
                LET z == zones[mobs'[m].Zone]
                IN /\ z.MinX <= mobs'[m].X /\ mobs'[m].X <= z.MaxX
                   /\ z.MinY <= mobs'[m].Y /\ mobs'[m].Y <= z.MaxY
       /\ \A m \in DOMAIN mobs \cap DOMAIN mobs' : mobs'[m].Zone = mobs[m].Zone]_vars

---------------------------------------------------------------------------
(* Busy world: every task of the single-lock server at once.  The handlers *)
(* of p1 serves until its read fails, the broadcast task makes its rounds, *)
(* and the collision, petal and mob loops and the revive goroutines run on *)
(* the revive arena                                                        *)

\* a tick, and the moment the 2 s sleep started at it ends
InstantsBusy == {0, 20}

\* the revive arena without its goblin
InitBusy == InitArena([ReviveArena(100) EXCEPT !.mobs = [m \in {"m1"} |-> @[m]]])

\* the steps that take Game.mu exclusively
Writers ==
    \/ \E c \in Movers : HandlerExit(c)
    \/ checkCollisions
    \/ updatePetals
    \/ checkPetalDrops
    \/ checkPetalCollisions
    \/ checkPetalHealing
    \/ UpdateMobs
    \/ \E k \in 1..Len(revives) : ReviveFire(k)

\* the steps of a broadcast round after its RLock
Round == BroadcastWrite \/ BroadcastWriteDone \/ BroadcastEnd

NextBusy ==
    \/ \E c \in Movers : HandlerReadError(c)
    \/ Writers
    \/ BroadcastBegin
    \/ Round
    \/ AdvanceTo(InstantsBusy)

\* a task has called g.mu.Lock(): a tick of the collision, mob or petal
\* loop has fired, the petal loop is between two of its four calls, a
\* handler is returning, or the sleep of a revive goroutine is over
Asked ==
    \/ collTick
    \/ aiTick
    \/ petalTick
    \/ petalPc # "update"
    \/ \E c \in Movers : handlers[c].pc = "exit"
    \/ \E k \in 1..Len(revives) : now >= revives[k].at

\* what the steps of Writers record
WriterOps == {"RemovePlayer", "checkCollisions", "updatePetals", "checkPetalDrops",
              "checkPetalCollisions", "checkPetalHealing", "UpdateMobs",
              "ReviveFire"}

\* strong fairness of Writers, written out: one of its steps can be taken
\* when a task has asked for the lock and the lock is free
WritersServed ==
    \/ <>[]~(Asked /\ Lock)
    \/ []<><<Asked /\ Lock /\ last'.op \in WriterOps>>_vars

\* sync.RWMutex serves a pending Lock before any later RLock and hands the
\* lock over to a starving waiter, so whenever Game.mu is released again
\* and again one of the tasks that ask for it exclusively gets it (strong
\* fairness; the clock is bounded, so each of them asks finitely often); the
\* broadcast goes on from one statement to the next, and a write to a
\* socket returns
SpecBusy ==
    /\ InitBusy
    /\ [][NextBusy]_vars
    /\ WritersServed
    /\ WF_vars(Round)

---------------------------------------------------------------------------
(* Claims about waiting for Game.mu *)

---------------------------------------------------------------------------
(* The multi-lock game (package game of src/server/game): players,         *)
(* connections and mobs are guarded by playersMu, connectionsMu and        *)
(* mobsMu.  A task that has called Lock and waits is a holder <<t, "P">>:  *)
(* sync.RWMutex lets no new reader in while a writer waits, and lets the   *)
(* writer in when the readers have left.  tasks holds the position of      *)
(* every goroutine.                                                        *)

MultiUnlocked == [connectionsMu |-> {}, playersMu |-> {}, mobsMu |-> {}]

\* what the steps of the handlers and of the broadcast leave alone
MultiKeeps == <<mobs, petalDrops, revives, now, petalPc, petalTick, collTick, aiTick,
                via, nmoves, mu, handlers, bcast, writing>>

\* task t has called l.Lock()
Waits(l, t) == [locks EXCEPT ![l] = @ \cup {<<t, "P">>}]

\* l.Lock() of task t can return: nobody holds l
Granted(l, t) == <<t, "P">> \in locks[l] /\ \A h \in locks[l] : h[2] = "P"

\* l.Lock() of task t returns
Holds(l, t) == [locks EXCEPT ![l] = (@ \ {<<t, "P">>}) \cup {<<t, "W">>}]

\* task t has l.RLock() returned
Reads(l, t) == [locks EXCEPT ![l] = @ \cup {<<t, "R">>}]

\* task t gives l back
Releases(l, t) == [locks EXCEPT ![l] = { h \in @ : h[1] # t }]

\* a handler that has upgraded its connection
Arrived == [pc |-> "upgraded", zone |-> "", seen |-> {}]

\* the broadcast task between two rounds
Idle == [pc |-> "idle", copy |-> << >>, i |-> 0, zone |-> "", seen |-> {}]

\* AddPlayer calls g.playersMu.Lock()
multiAddPlayerLock(c) ==
    /\ tasks[c].pc = "upgraded"
    /\ tasks' = [tasks EXCEPT ![c].pc = "add_wait"]
    /\ locks' = Waits("playersMu", c)
    /\ sent' = << >>
    /\ last' = [NoLast EXCEPT !.op = "AddPlayerLock", !.pid = c]
    /\ UNCHANGED <<players, connections>>
    /\ UNCHANGED MultiKeeps

\* AddPlayer up to g.connectionsMu.Lock(): the player is stored under the
\* id built from the clock and a 63-bit draw (c stands for it)
multiAddPlayer(c) ==
    /\ tasks[c].pc = "add_wait"
    /\ Granted("playersMu", c)
    /\ locks' = Holds("playersMu", c)
    /\ \E s \in findSafeSpawnPosition("common", "") :
          players' = (c :> NewPlayer(s[1], s[2])) @@ players
    /\ tasks' = [tasks EXCEPT ![c].pc = "adding"]
    /\ sent' = << >>
    /\ last' = [NoLast EXCEPT !.op = "AddPlayer", !.pid = c]
    /\ UNCHANGED connections
    /\ UNCHANGED MultiKeeps

\* the rest of AddPlayer: the connection is stored under connectionsMu, and
\* the deferred playersMu.Unlock runs
multiAddConnection(c) ==
    /\ tasks[c].pc = "adding"
    /\ Free("connectionsMu")
    /\ connections' = connections \cup {c}
    /\ locks' = Releases("playersMu", c)
    /\ tasks' = [tasks EXCEPT ![c].pc = "joined"]
    /\ sent' = << >>
    /\ last' = [NoLast EXCEPT !.op = "AddConnection", !.pid = c]
    /\ UNCHANGED players
    /\ UNCHANGED MultiKeeps

\* GetGameState: g.playersMu.RLock() returns and the zone of the player is
\* read
multiGetGameState(c) ==
    /\ tasks[c].pc = "joined"
    /\ FreeToRead("playersMu")
    /\ locks' = Reads("playersMu", c)
    /\ tasks' = [tasks EXCEPT ![c].pc = "outer",
                              ![c].zone = IF c \in DOMAIN players
                                          THEN players[c].CurrentZone ELSE "common"]
    /\ sent' = << >>
    /\ last' = [NoLast EXCEPT !.op = "GetGameStateRLock", !.pid = c]
    /\ UNCHANGED <<players, connections>>
    /\ UNCHANGED MultiKeeps

\* filterObjectsByZone called by GetGameState: g.playersMu.RLock() returns a
\* second time for the same task, the players of the zone are copied and
\* g.playersMu.RUnlock() gives the second hold back
multiGetGameStateFilter(c) ==
    /\ tasks[c].pc = "outer"
    /\ FreeToRead("playersMu")
    /\ tasks' = [tasks EXCEPT ![c].pc = "inner",
                              ![c].seen = filterByZone(tasks[c].zone).players]
    /\ sent' = << >>
    /\ last' = [NoLast EXCEPT !.op = "GetGameStateFilter", !.pid = c]
    /\ UNCHANGED <<players, connections, locks>>
    /\ UNCHANGED MultiKeeps

\* the rest of GetGameState: the mobs of the zone are copied under
\* mobsMu.RLock, the state is returned and the deferred playersMu.RUnlock
\* runs
multiGetGameStateReturn(c) ==
    /\ tasks[c].pc = "inner"
    /\ FreeToRead("mobsMu")
    /\ locks' = Releases("playersMu", c)
    /\ tasks' = [tasks EXCEPT ![c].pc = "state"]
    /\ sent' = << >>
    /\ last' = [NoLast EXCEPT !.op = "GetGameState", !.pid = c,
                   !.snap = [kind |-> "initial", zone |-> tasks[c].zone,
                             players |-> tasks[c].seen,
                             mobs |-> filterByZone(tasks[c].zone).mobs,
                             drops |-> {}]]
    /\ UNCHANGED <<players, connections>>
    /\ UNCHANGED MultiKeeps

\* ws.WriteJSON(initialState): on an error the handler returns
multiWriteInitial(c) ==
    \E ok \in BOOLEAN :
       /\ tasks[c].pc = "state"
       /\ tasks' = [tasks EXCEPT ![c].pc = IF ok THEN "loop" ELSE "exit"]
       /\ sent' = IF ok THEN << [to |-> c, type |-> "state"] >> ELSE << >>
       /\ last' = [NoLast EXCEPT !.op = "WriteInitial", !.pid = c, !.failed = ~ok]
       /\ UNCHANGED <<players, connections, locks>>
       /\ UNCHANGED MultiKeeps

\* ws.ReadJSON returns an error: the loop is left
multiReadError(c) ==
    /\ tasks[c].pc = "loop"
    /\ tasks' = [tasks EXCEPT ![c].pc = "exit"]
    /\ sent' = << >>
    /\ last' = [NoLast EXCEPT !.op = "ReadError", !.pid = c]
    /\ UNCHANGED <<players, connections, locks>>
    /\ UNCHANGED MultiKeeps

\* the deferred RemovePlayer calls g.playersMu.Lock()
multiRemovePlayerLock(c) ==
    /\ tasks[c].pc = "exit"
    /\ tasks' = [tasks EXCEPT ![c].pc = "remove_wait"]
    /\ locks' = Waits("playersMu", c)
    /\ sent' = << >>
    /\ last' = [NoLast EXCEPT !.op = "RemovePlayerLock", !.pid = c]
    /\ UNCHANGED <<players, connections>>
    /\ UNCHANGED MultiKeeps

\* RemovePlayer up to removeConnection: the player is deleted
multiRemovePlayer(c) ==
    /\ tasks[c].pc = "remove_wait"
    /\ Granted("playersMu", c)
    /\ locks' = Holds("playersMu", c)
    /\ players' = [p \in DOMAIN players \ {c} |-> players[p]]
    /\ tasks' = [tasks EXCEPT ![c].pc = "removing"]
    /\ sent' = << >>
    /\ last' = [NoLast EXCEPT !.op = "RemovePlayer", !.pid = c]
    /\ UNCHANGED connections
    /\ UNCHANGED MultiKeeps

\* removeConnection called by RemovePlayer, and the deferred
\* playersMu.Unlock
multiRemoveConnection(c) ==
    /\ tasks[c].pc = "removing"
    /\ Free("connectionsMu")
    /\ connections' = connections \ {c}
    /\ locks' = Releases("playersMu", c)
    /\ tasks' = [tasks EXCEPT ![c].pc = "closed"]
    /\ sent' = << >>
    /\ last' = [NoLast EXCEPT !.op = "removeConnection", !.pid = c]
    /\ UNCHANGED players
    /\ UNCHANGED MultiKeeps

\* broadcastGameState copies g.connections under connectionsMu.RLock; with
\* no connection it returns
multiBroadcastCopy ==
    \E order \in Orders(connections) :
       /\ tasks["broadcast"].pc = "idle"
       /\ FreeToRead("connectionsMu")
       /\ connections # {}
       /\ tasks' = [tasks EXCEPT !["broadcast"] =
                       [Idle EXCEPT !.pc = "next", !.copy = order, !.i = 1]]
       /\ sent' = << >>
       /\ last' = [NoLast EXCEPT !.op = "BroadcastCopy"]
       /\ UNCHANGED <<players, connections, locks>>
       /\ UNCHANGED MultiKeeps

\* the zone of the next player of the copy is read under playersMu.RLock
multiBroadcastZone ==
    LET b == tasks["broadcast"]
    IN /\ b.pc = "next"
       /\ b.i <= Len(b.copy)
       /\ FreeToRead("playersMu")
       /\ tasks' = [tasks EXCEPT !["broadcast"].pc = "filter",
                                 !["broadcast"].zone =
                                     IF b.copy[b.i] \in DOMAIN players
                                     THEN players[b.copy[b.i]].CurrentZone
                                     ELSE "common"]
       /\ sent' = << >>
       /\ last' = [NoLast EXCEPT !.op = "BroadcastZone", !.pid = b.copy[b.i]]
       /\ UNCHANGED <<players, connections, locks>>
       /\ UNCHANGED MultiKeeps

\* filterObjectsByZone called by the broadcast: the players of the zone are
\* copied under playersMu.RLock
multiBroadcastFilter ==
    LET b == tasks["broadcast"]
    IN /\ b.pc = "filter"
       /\ FreeToRead("playersMu")
       /\ tasks' = [tasks EXCEPT !["broadcast"].pc = "mobs",
                                 !["broadcast"].seen = filterByZone(b.zone).players]
       /\ sent' = << >>
       /\ last' = [NoLast EXCEPT !.op = "BroadcastFilter", !.pid = b.copy[b.i]]
       /\ UNCHANGED <<players, connections, locks>>
       /\ UNCHANGED MultiKeeps

\* filterObjectsByZone goes on: g.mobsMu.RLock() returns and the range loop
\* over g.mobs begins
multiBroadcastMobs ==
    LET b == tasks["broadcast"]
    IN /\ b.pc = "mobs"
       /\ FreeToRead("mobsMu")
       /\ locks' = Reads("mobsMu", "broadcast")
       /\ tasks' = [tasks EXCEPT !["broadcast"].pc = "ranging"]
       /\ sent' = << >>
       /\ last' = [NoLast EXCEPT !.op = "BroadcastMobs", !.pid = b.copy[b.i]]
       /\ UNCHANGED <<players, connections>>
       /\ UNCHANGED MultiKeeps

\* the mobs of the zone have been copied, g.mobsMu.RUnlock() runs and the
\* state is written to the socket; a failed write leads to removeConnection
multiBroadcastWrite ==
    \E ok \in BOOLEAN :
       LET b == tasks["broadcast"]
       IN /\ b.pc = "ranging"
          /\ locks' = Releases("mobsMu", "broadcast")
          /\ tasks' = [tasks EXCEPT !["broadcast"].pc = IF ok THEN "next" ELSE "drop",
                                    !["broadcast"].i = IF ok THEN @ + 1 ELSE @]
          /\ sent' = IF ok THEN << [to |-> b.copy[b.i], type |-> "state"] >> ELSE << >>
          /\ last' = [NoLast EXCEPT !.op = "BroadcastWrite", !.pid = b.copy[b.i],
                         !.failed = ~ok,
                         !.snap = [kind |-> "broadcast", zone |-> b.zone,
                                   players |-> b.seen,
                                   mobs |-> filterByZone(b.zone).mobs,
                                   drops |-> {}]]
          /\ UNCHANGED <<players, connections>>
          /\ UNCHANGED MultiKeeps

\* g.removeConnection(playerID) after a failed write: the connection is
\* closed and deleted under connectionsMu; the player stays in g.players
multiBroadcastRemove ==
    LET b == tasks["broadcast"]
    IN /\ b.pc = "drop"
       /\ Free("connectionsMu")
       /\ connections' = connections \ {b.copy[b.i]}
       /\ tasks' = [tasks EXCEPT !["broadcast"].pc = "next", !["broadcast"].i = @ + 1]
       /\ sent' = << >>
       /\ last' = [NoLast EXCEPT !.op = "removeConnection", !.pid = b.copy[b.i],
                                 !.failed = TRUE]
       /\ UNCHANGED <<players, locks>>
       /\ UNCHANGED MultiKeeps

\* the range loop over the copy is over
multiBroadcastReturn ==
    /\ tasks["broadcast"].pc = "next"
    /\ tasks["broadcast"].i > Len(tasks["broadcast"].copy)
    /\ tasks' = [tasks EXCEPT !["broadcast"] = Idle]
    /\ sent' = << >>
    /\ last' = [NoLast EXCEPT !.op = "BroadcastEnd"]
    /\ UNCHANGED <<players, connections, locks>>
    /\ UNCHANGED MultiKeeps

\* the steps of the handler of client c
multiHandler(c) ==
    \/ multiAddPlayerLock(c)
    \/ multiAddPlayer(c)
    \/ multiAddConnection(c)
    \/ multiGetGameState(c)
    \/ multiGetGameStateFilter(c)
    \/ multiGetGameStateReturn(c)
    \/ multiWriteInitial(c)
    \/ multiReadError(c)
    \/ multiRemovePlayerLock(c)
    \/ multiRemovePlayer(c)
    \/ multiRemoveConnection(c)

\* the steps of the broadcast task
multiBroadcast ==
    \/ multiBroadcastCopy
    \/ multiBroadcastZone
    \/ multiBroadcastFilter
    \/ multiBroadcastMobs
    \/ multiBroadcastWrite
    \/ multiBroadcastRemove
    \/ multiBroadcastReturn

---------------------------------------------------------------------------
(* Multi-lock world: two clients come and go while the broadcast runs *)

InitMulti ==
    /\ now = 0
    /\ players = << >>
    /\ connections = {}
    /\ mobs = ServerMobs
    /\ petalDrops = << >>
    /\ revives = << >>
    /\ petalPc = "update"
    /\ petalTick = FALSE
    /\ collTick = FALSE
    /\ aiTick = FALSE
    /\ sent = << >>
    /\ last = NoLast
    /\ via = [p \in PlayerIds |-> NoVia]
    /\ nmoves = 0
    /\ mu = {}
    /\ handlers = [c \in Clients |-> Upgraded(c)]
    /\ bcast = Resting
    /\ writing = [c \in Clients |-> {}]
    /\ locks = MultiUnlocked
    /\ tasks = [t \in Clients \cup {"broadcast"} |->
                  IF t = "broadcast" THEN Idle ELSE Arrived]

NextMulti ==
    \/ \E c \in Clients : multiHandler(c)
    \/ multiBroadcast

\* every goroutine that can take a step takes one
SpecMulti ==
    /\ InitMulti
    /\ [][NextMulti]_vars
    /\ \A c \in Clients : WF_vars(multiHandler(c))
    /\ WF_vars(multiBroadcast)

---------------------------------------------------------------------------
(* Claims about the multi-lock game *)

\* C36: in the multi-lock game GetGameState always completes: a handler that
\* holds playersMu shared inside GetGameState gets to the return of
\* GetGameState, whatever AddPlayer and RemovePlayer calls of other handlers
\* ask for playersMu meanwhile
C36_GetGameStateCompletes ==
    \A c \in Clients : (tasks[c].pc = "outer") ~> (tasks[c].pc = "state")

\* C34: the player store and the connection table hold the same ids in
\* every state, at least in every state in which no AddPlayer or
\* RemovePlayer is under way between its two stores (no task holds
\* playersMu exclusively)
C34_SameIds ==
    (\A h \in locks.playersMu : h[2] # "W") => DOMAIN players = connections

---------------------------------------------------------------------------
(* The mob tick and the spawn task of the multi-lock game.  A statement    *)
(* that reads or writes mob data over some time takes two steps, its       *)
(* beginning and its end.  With every player alive, updateMobBehavior and  *)
(* resolveMobCollisions compute what their single-lock versions compute.   *)

\* what the steps of the mob tick and of the spawn task leave alone
FlockKeeps == <<players, connections, petalDrops, revives, now, petalPc, petalTick,
                collTick, via, nmoves, mu, handlers, bcast, writing>>

\* the mob tick between two rounds
Dozing == [pc |-> "idle", list |-> << >>, i |-> 0, next |-> << >>]

\* the spawn task between two rounds
Lurking == [pc |-> "idle", counts |-> << >>, todo |-> << >>, zone |-> "", need |-> 0,
            spawned |-> 0, attempts |-> 0, left |-> 0, mobType |-> "", new |-> << >>]

\* the most mobs the store holds before the spawn task is cut short
MaxFlock == 2

\* the most attempts of a zone that are followed
MaxTries == 2

\* the orders in which the spawn task's range over g.zones is tried
FlockRanges == { ZoneOrder, [i \in 1..Len(ZoneOrder) |-> ZoneOrder[Len(ZoneOrder) + 1 - i]] }

\* the draws of the spawn task that are tried: an orc at the middle of the
\* zone or at its upper left
FlockTapes == { t \in SpawnTapes : t.mobType = "orc" }

\* UpdateMobs copies the mobs into a slice under mobsMu.RLock
multiUpdateMobs ==
    \E list \in Orders(DOMAIN mobs) :
       /\ tasks["ai"].pc = "idle"
       /\ aiTick
       /\ aiTick' = FALSE
       /\ FreeToRead("mobsMu")
       /\ tasks' = [tasks EXCEPT !["ai"] = [Dozing EXCEPT !.pc = "next", !.list = list,
                                                          !.i = 1]]
       /\ sent' = << >>
       /\ last' = [NoLast EXCEPT !.op = "UpdateMobs"]
       /\ UNCHANGED <<mobs, locks>>
       /\ UNCHANGED FlockKeeps

\* updateMobBehavior(mob) begins for the next mob of the slice, with no
\* lock but the playersMu.RLock inside findClosestPlayerInZone: it ranges
\* over g.mobs (avoidOtherMobs) and writes fields of the mob
multiUpdateMobBehavior ==
    LET a == tasks["ai"]
    IN /\ a.pc = "next"
       /\ a.i <= Len(a.list)
       /\ FreeToRead("playersMu")
       /\ \E po \in Orders(DOMAIN players), mo \in Orders(DOMAIN mobs), tape \in AiTapes :
             tasks' = [tasks EXCEPT
                         !["ai"].pc = "behaving",
                         !["ai"].next = updateMobBehavior(mobs, players, po, mo,
                                                          a.list[a.i], tape)]
       /\ sent' = << >>
       /\ last' = [NoLast EXCEPT !.op = "updateMobBehavior"]
       /\ UNCHANGED <<mobs, locks, aiTick>>
       /\ UNCHANGED FlockKeeps

\* updateMobBehavior(mob) returns: the fields of the mob are written
multiUpdateMobDone ==
    LET a == tasks["ai"]
        id == a.list[a.i]
    IN /\ a.pc = "behaving"
       /\ mobs' = [mobs EXCEPT ![id] = a.next[id]]
       /\ tasks' = [tasks EXCEPT !["ai"].pc = "next", !["ai"].i = @ + 1,
                                 !["ai"].next = << >>]
       /\ sent' = << >>
       /\ last' = [NoLast EXCEPT !.op = "updateMobBehaviorDone"]
       /\ UNCHANGED <<locks, aiTick>>
       /\ UNCHANGED FlockKeeps

\* resolveMobCollisions begins: it ranges over g.mobs with no lock
multiResolveMobCollisions ==
    LET a == tasks["ai"]
    IN /\ a.pc = "next"
       /\ a.i > Len(a.list)
       /\ \E co \in Orders(DOMAIN mobs) :
             tasks' = [tasks EXCEPT !["ai"].pc = "resolving",
                                    !["ai"].next = resolveMobCollisionsLocked(mobs, co)]
       /\ sent' = << >>
       /\ last' = [NoLast EXCEPT !.op = "resolveMobCollisions"]
       /\ UNCHANGED <<mobs, locks, aiTick>>
       /\ UNCHANGED FlockKeeps

\* resolveMobCollisions returns: the mobs it pushed apart are written, with
\* no lock
multiResolveDone ==
    LET a == tasks["ai"]
    IN /\ a.pc = "resolving"
       /\ mobs' = [k \in DOMAIN mobs |-> IF k \in DOMAIN a.next THEN a.next[k]
                                         ELSE mobs[k]]
       /\ tasks' = [tasks EXCEPT !["ai"] = Dozing]
       /\ sent' = << >>
       /\ last' = [NoLast EXCEPT !.op = "resolveMobCollisionsDone"]
       /\ UNCHANGED <<locks, aiTick>>
       /\ UNCHANGED FlockKeeps

\* spawnMobsIfNeeded counts the mobs of every zone under mobsMu.RLock
multiSpawnCount ==
    /\ tasks["spawn"].pc = "idle"
    /\ FreeToRead("mobsMu")
    /\ \E order \in FlockRanges :
          tasks' = [tasks EXCEPT !["spawn"] =
                      [Lurking EXCEPT !.pc = "zones", !.todo = order,
                                      !.counts = [z \in ZoneNames |-> ZoneCount(mobs, z)]]]
    /\ sent' = << >>
    /\ last' = [NoLast EXCEPT !.op = "spawnCount"]
    /\ UNCHANGED <<mobs, locks, aiTick>>
    /\ UNCHANGED FlockKeeps

\* the range loop over g.zones comes to its next zone, or is over
multiSpawnZone ==
    LET sp == tasks["spawn"]
    IN /\ sp.pc = "zones"
       /\ IF sp.todo = << >>
          THEN tasks' = [tasks EXCEPT !["spawn"] = Lurking]
          ELSE LET z == Head(sp.todo)
               IN tasks' = [tasks EXCEPT !["spawn"] =
                     IF sp.counts[z] >= maxMobsPerZone
                     THEN [sp EXCEPT !.todo = Tail(@)]
                     ELSE [sp EXCEPT !.todo = Tail(@), !.pc = "attempts", !.zone = z,
                                     !.need = maxMobsPerZone - sp.counts[z],
                                     !.spawned = 0, !.attempts = 0, !.left = 0]]
       /\ sent' = << >>
       /\ last' = [NoLast EXCEPT !.op = "spawnZone"]
       /\ UNCHANGED <<mobs, locks, aiTick>>
       /\ UNCHANGED FlockKeeps

\* for spawned < needToSpawn && attempts < maxAttempts: an archetype and a
\* batch size are drawn, or the zone is done
multiSpawnAttempt ==
    LET sp == tasks["spawn"]
    IN /\ sp.pc = "attempts"
       /\ sp.left = 0
       /\ sp.attempts < MaxTries
       /\ IF sp.spawned < sp.need /\ sp.attempts < sp.need * 5
          THEN \E tape \in FlockTapes :
                  tasks' = [tasks EXCEPT !["spawn"].attempts = @ + 1,
                                         !["spawn"].mobType = tape.mobType,
                                         !["spawn"].left =
                                             BatchSize(tape, sp.spawned, sp.need)]
          ELSE tasks' = [tasks EXCEPT !["spawn"].pc = "zones"]
       /\ sent' = << >>
       /\ last' = [NoLast EXCEPT !.op = "spawnAttempt"]
       /\ UNCHANGED <<mobs, locks, aiTick>>
       /\ UNCHANGED FlockKeeps

\* the body of the inner loop up to g.mobsMu.Lock(): a point is drawn, a
\* temporary mob gives the radius, isPositionSafeForMob tests the point
\* under playersMu.RLock, and the mob is built under an id of the clock and
\* a random draw (a fresh number stands for it)
multiSpawnDraw ==
    LET sp == tasks["spawn"]
        zone == zones[sp.zone]
    IN /\ sp.pc = "attempts"
       /\ sp.left > 0
       /\ Cardinality(DOMAIN mobs) < MaxFlock
       /\ FreeToRead("playersMu")
       /\ \E temp \in FlockTapes, tape \in FlockTapes :
             LET x == zone.MinX + (temp.spots[1][1] * (zone.MaxX - zone.MinX)) \div 100
                 y == zone.MinY + (temp.spots[1][2] * (zone.MaxY - zone.MinY)) \div 100
                 tempMob == NewMob(sp.mobType, RarityRoll(sp.zone, temp.high), x, y,
                                   sp.zone, temp.offset)
                 safe == \A p \in DOMAIN players :
                            ~InsideSq(x - players[p].X, y - players[p].Y,
                                      SpawnExclusion + tempMob.Radius)
                 id == <<sp.zone, FreshId({ k[2] : k \in { q \in DOMAIN mobs :
                                                            q[1] = sp.zone } })>>
             IN IF safe
                THEN /\ tasks' = [tasks EXCEPT
                           !["spawn"].pc = "lock",
                           !["spawn"].new =
                               (id :> NewMob(sp.mobType, RarityRoll(sp.zone, tape.high),
                                             x, y, sp.zone, tape.offset))]
                     /\ locks' = Waits("mobsMu", "spawn")
                ELSE /\ tasks' = [tasks EXCEPT !["spawn"].left = @ - 1]
                     /\ locks' = locks
       /\ sent' = << >>
       /\ last' = [NoLast EXCEPT !.op = "spawnDraw"]
       /\ UNCHANGED <<mobs, aiTick>>
       /\ UNCHANGED FlockKeeps

\* g.mobsMu.Lock() returns
multiSpawnLock ==
    /\ tasks["spawn"].pc = "lock"
    /\ Granted("mobsMu", "spawn")
    /\ locks' = Holds("mobsMu", "spawn")
    /\ tasks' = [tasks EXCEPT !["spawn"].pc = "inserting"]
    /\ sent' = << >>
    /\ last' = [NoLast EXCEPT !.op = "spawnLock"]
    /\ UNCHANGED <<mobs, aiTick>>
    /\ UNCHANGED FlockKeeps

\* g.mobs[mobID] = mob, g.mobsMu.Unlock(), spawned++ and the test that ends
\* the batch
multiSpawnInsert ==
    LET sp == tasks["spawn"]
    IN /\ sp.pc = "inserting"
       /\ mobs' = sp.new @@ mobs
       /\ locks' = Releases("mobsMu", "spawn")
       /\ tasks' = [tasks EXCEPT !["spawn"].pc = "attempts",
                                 !["spawn"].new = << >>,
                                 !["spawn"].spawned = @ + 1,
                                 !["spawn"].left = IF sp.spawned + 1 >= sp.need THEN 0
                                                   ELSE @ - 1]
       /\ sent' = << >>
       /\ last' = [NoLast EXCEPT !.op = "spawnInsert"]
       /\ UNCHANGED aiTick
       /\ UNCHANGED FlockKeeps

\* the accesses to mob data that are under way: the task, whether it
\* writes, whether it touches the map g.mobs itself or the fields of the
\* mobs in it, and the way it holds mobsMu
MobAccesses ==
    (IF tasks["ai"].pc = "behaving"
     THEN {[task |-> "ai", what |-> "map", writes |-> FALSE, holds |-> "none"],
           [task |-> "ai", what |-> "fields", writes |-> TRUE, holds |-> "none"]}
     ELSE {})
    \cup
    (IF tasks["ai"].pc = "resolving"
     THEN {[task |-> "ai", what |-> "map", writes |-> FALSE, holds |-> "none"],
           [task |-> "ai", what |-> "fields", writes |-> TRUE, holds |-> "none"]}
     ELSE {})
    \cup
    (IF tasks["broadcast"].pc = "ranging"
     THEN {[task |-> "broadcast", what |-> "map", writes |-> FALSE, holds |-> "R"],
           [task |-> "broadcast", what |-> "fields", writes |-> FALSE, holds |-> "R"]}
     ELSE {})
    \cup
    (IF tasks["spawn"].pc = "inserting"
     THEN {[task |-> "spawn", what |-> "map", writes |-> TRUE, holds |-> "W"]}
     ELSE {})

\* two tasks touch the same mob data, one of them writes, and mobsMu does
\* not keep them apart
MobRace ==
    \E a, b \in MobAccesses :
       /\ a.task # b.task
       /\ a.what = b.what
       /\ a.writes
       /\ a.holds = "none" \/ b.holds = "none"

\* the Go runtime notices a map write during a map iteration and ends the
\* process ("concurrent map iteration and map write"); it need not notice
multiFatal ==
    /\ tasks["spawn"].pc = "inserting"
    /\ tasks["ai"].pc \in {"behaving", "resolving"}
    /\ tasks' = [t \in DOMAIN tasks |-> [tasks[t] EXCEPT !.pc = "dead"]]
    /\ sent' = << >>
    /\ last' = [NoLast EXCEPT !.op = "fatal"]
    /\ UNCHANGED <<mobs, locks, aiTick>>
    /\ UNCHANGED FlockKeeps

---------------------------------------------------------------------------
(* Flock world: the mob tick, the spawn task and the broadcast at work on  *)
(* a store of one mob                                                      *)

\* p1 in zone common, connected; an orc 100 units from p1
InitFlock ==
    /\ now = 0
    /\ players = [p \in {"p1"} |-> [NewPlayer(31500, 15000) EXCEPT !.LastHitTime = 0 - 1]]
    /\ connections = {"p1"}
    /\ mobs = ( <<"common", 1>> :> OldMob("orc", "common", 32500, 15000, "common", 0, 0) )
    /\ petalDrops = << >>
    /\ revives = << >>
    /\ petalPc = "update"
    /\ petalTick = FALSE
    /\ collTick = FALSE
    /\ aiTick = TRUE
    /\ sent = << >>
    /\ last = NoLast
    /\ via = [p \in PlayerIds |-> NoVia]
    /\ nmoves = 0
    /\ mu = {}
    /\ handlers = [c \in Clients |-> Serving(c)]
    /\ bcast = Resting
    /\ writing = [c \in Clients |-> {}]
    /\ locks = MultiUnlocked
    /\ tasks = ( "ai" :> Dozing @@ "spawn" :> Lurking @@ "broadcast" :> Idle )

NextFlock ==
    \/ multiUpdateMobs
    \/ multiUpdateMobBehavior
    \/ multiUpdateMobDone
    \/ multiResolveMobCollisions
    \/ multiResolveDone
    \/ multiSpawnCount
    \/ multiSpawnZone
    \/ multiSpawnAttempt
    \/ multiSpawnDraw
    \/ multiSpawnLock
    \/ multiSpawnInsert
    \/ multiFatal
    \/ multiBroadcast

SpecFlock == InitFlock /\ [][NextFlock]_vars

---------------------------------------------------------------------------
(* Claims about the mob data of the multi-lock game *)

\* C39: in the multi-lock game the mob store and the fields of its mobs are
\* never read or ranged over by one task while another task writes them
\* without a common lock
C39_NoMobRace == ~MobRace

====
